---- MODULE Spec2Model ----
(***************************************************************************)
(* Model of the Webscraper capture pipeline: the url-code registry and    *)
(* configuration store (modules/configmanager.py), the identifier         *)
(* generator (modules/utils.py), the tag extraction (modules/parser.py)   *)
(* and the sequence counter and dual-store save                           *)
(* (modules/databasemanager.py).                                          *)
(*                                                                         *)
(* Strings whose characters the code inspects (prefix char, run number,   *)
(* url code, identifier) are sequences of one-character strings.  A       *)
(* Python value that may be None is None or Some(v).  Every function of   *)
(* the program is an operator from the world it runs in (the persisted    *)
(* files and tables plus the process globals) and its arguments to the    *)
(* world it leaves and its result; what the environment decides (random   *)
(* draws, the clock, i/o and database errors) is an explicit argument.    *)
(***************************************************************************)
EXTENDS Integers, Sequences, FiniteSets, TLC

VARIABLES
    envFile,              \* the .env file: key -> stored text
    osEnviron,            \* os.environ of the running process
    CONFIG,               \* configmanager.CONFIG
    local_db_connection,  \* databasemanager._local_db_connection
    supabase_client,      \* databasemanager._supabase_client
    sequential_counters,  \* local table sequential_counters: <<url_code, prefix_char>> -> last_sequence
    scraped_pages,        \* local table scraped_pages, rows in insertion order
    html_tag_data,        \* local table html_tag_data, rows in insertion order
    sb_scraped_pages,     \* remote table scraped_pages
    sb_html_tag_data,     \* remote table html_tag_data
    now,                  \* index of the current clock reading in ClockReadings
    lastCall,             \* observation: the last call made, its arguments and its outcome
    seqCalls,             \* observation: successful get_next_sequence calls of this run, per key
    seqBase,              \* observation: each key's counter when the run began (0: no row)
    boundCode,            \* observation: the code first returned for each url
    jobs,                 \* schedule.jobs: the job table of the schedule module
    _stop_scheduler,      \* scheduler._stop_scheduler
    loop                  \* the activation of run_pending_schedules: its position and locals

vars == <<envFile, osEnviron, CONFIG, local_db_connection, supabase_client,
          sequential_counters, scraped_pages, html_tag_data,
          sb_scraped_pages, sb_html_tag_data, now, lastCall,
          seqCalls, seqBase, boundCode, jobs, _stop_scheduler, loop>>

\* the state of scheduler.py and of the schedule module
schedulerVars == <<jobs, _stop_scheduler, loop>>

----------------------------------------------------------------------------
(* Bounds of the model *)

\* successful get_next_sequence calls in one behaviour
MaxSeqCalls == 3
\* identifiers save_scrape_data generates in one behaviour
MaxCaptures == 2
\* the counter of the key <<CODE_AA, "P">> in the store of an installation in use
UsedSequence == 998
\* the seconds the loop of run_pending_schedules sleeps in one activation
MaxPolls == 2
\* the length of a day of run_duration_days, in sleeps of the loop
DayPolls == 1

(* Program constants *)

\* utils.py: "if sequence_int > 999: ... sequence_int = 999"
SEQUENCE_CAP == 999
\* configmanager.py: _MAX_CODE_GENERATION_ATTEMPTS
MAX_CODE_GENERATION_ATTEMPTS == 1000

----------------------------------------------------------------------------
(* Python values *)

None == [isNone |-> TRUE]
Some(v) == [isNone |-> FALSE, val |-> v]
IsNone(x) == x.isNone

\* the pairs of a dict, and a dict from pairs (a later pair of a key wins)
Items(d) == {<<k, d[k]>> : k \in DOMAIN d}
Values(d) == {d[k] : k \in DOMAIN d}
EmptyDict == [k \in {} |-> None]
DictSet(d, k, v) == [x \in (DOMAIN d) \cup {k} |-> IF x = k THEN v ELSE d[x]]
DictDel(d, k) == [x \in (DOMAIN d) \ {k} |-> d[x]]

RECURSIVE SumOver(_, _)
SumOver(f, S) ==
    IF S = {} THEN 0
    ELSE LET x == CHOOSE y \in S : TRUE IN f[x] + SumOver(f, S \ {x})

----------------------------------------------------------------------------
(* Characters and number formatting *)

DigitChars == <<"0", "1", "2", "3", "4", "5", "6", "7", "8", "9">>
UpperChars == <<"A", "B", "C", "D", "E", "F", "G", "H", "I", "J", "K", "L", "M",
                "N", "O", "P", "Q", "R", "S", "T", "U", "V", "W", "X", "Y", "Z">>
IsDigitChar(c) == \E i \in 1..Len(DigitChars) : DigitChars[i] = c
IsUpperChar(c) == \E i \in 1..Len(UpperChars) : UpperChars[i] = c
DigitValue(c) == (CHOOSE i \in 1..Len(DigitChars) : DigitChars[i] = c) - 1

\* str.isdigit() of a non-empty string
isdigit(s) == Len(s) > 0 /\ \A i \in 1..Len(s) : IsDigitChar(s[i])

\* the decimal digits of n >= 0
RECURSIVE Decimal(_)
Decimal(n) ==
    IF n < 10 THEN <<DigitChars[n + 1]>>
    ELSE Decimal(n \div 10) \o <<DigitChars[(n % 10) + 1]>>

RECURSIVE ZeroPad(_, _)
ZeroPad(s, width) == IF Len(s) >= width THEN s ELSE ZeroPad(<<"0">> \o s, width)

\* f"{n:0<width>d}" for n >= 0: at least width digits, more when n needs them
FormatZeroPadded(n, width) == ZeroPad(Decimal(n), width)

\* the number a digit string denotes
RECURSIVE ParseDecimal(_)
ParseDecimal(s) ==
    IF Len(s) = 0 THEN 0
    ELSE 10 * ParseDecimal(SubSeq(s, 1, Len(s) - 1)) + DigitValue(s[Len(s)])

----------------------------------------------------------------------------
(* The clock.  datetime.now() reads it; it never runs backwards here. *)

ClockReadings ==
    << [year |-> 2025, month |-> 12, day |-> 31, hour |-> 23, minute |-> 59, second |-> 59],
       [year |-> 2026, month |-> 1, day |-> 1, hour |-> 0, minute |-> 0, second |-> 0] >>

\* a variant of strftime whose fields are not padded ("%-m" in place of "%m", ...)
strftime_unpadded(t) ==
    Decimal(t.year) \o Decimal(t.month) \o Decimal(t.day) \o
    Decimal(t.hour) \o Decimal(t.minute) \o Decimal(t.second)

\* datetime.strftime("%Y%m%d%H%M%S")
strftime(t) ==
    FormatZeroPadded(t.year, 4) \o FormatZeroPadded(t.month, 2) \o
    FormatZeroPadded(t.day, 2) \o FormatZeroPadded(t.hour, 2) \o
    FormatZeroPadded(t.minute, 2) \o FormatZeroPadded(t.second, 2)

----------------------------------------------------------------------------
(* configmanager.py: the .env file, os.environ and CONFIG.                 *)
(* The world w of a call: file (.env), environ (os.environ), config        *)
(* (CONFIG), conn and sb (the two cached clients), counters, pages, tags    *)
(* (local tables), sb_pages, sb_tags (remote tables).                       *)

\* json.dumps of a dict: the text of a JSON object, its members in some order
RECURSIVE json_dumps_items(_)
json_dumps_items(S) ==
    IF S = {} THEN <<>>
    ELSE LET m == CHOOSE x \in S : TRUE IN <<m>> \o json_dumps_items(S \ {m})

json_dumps(d) == json_dumps_items(Items(d))

\* json.loads of the text of a JSON object: a dict, a repeated member's last value kept
RECURSIVE json_loads(_)
json_loads(text) ==
    IF Len(text) = 0 THEN EmptyDict
    ELSE LET last == text[Len(text)]
         IN DictSet(json_loads(SubSeq(text, 1, Len(text) - 1)), last[1], last[2])

\* os.getenv(key, default)
getenv(environ, key, default) == IF key \in DOMAIN environ THEN environ[key] ELSE default

\* load_dotenv(path, override=True): every key of the file is set in os.environ,
\* a key the file does not hold keeps the value os.environ has
load_dotenv(file, environ) ==
    [k \in (DOMAIN environ) \cup (DOMAIN file) |->
        IF k \in DOMAIN file THEN file[k] ELSE environ[k]]

\* dotenv.set_key and dotenv.unset_key on the .env file
set_key(file, key, text) == DictSet(file, key, text)
unset_key(file, key) == DictDel(file, key)

DEFAULT_LAST_MANUAL_PREFIX == "M"
DEFAULT_LOG_LEVEL_STR == "REGULAR"

\* The text of a list-valued setting is kept as its pieces between the commas
\* (str.split(',')); a piece is a sequence of characters (a time) or of blanks
\* and one word (a url).  The empty text has one empty piece.
EmptyText == << <<>> >>
HH_MM(h1, h2, m1, m2) == <<h1, h2, ":", m1, m2>>
DEFAULT_PRIMARY_TIMES_STR == <<HH_MM("0", "8", "0", "0"), HH_MM("1", "7", "0", "0")>>
DEFAULT_BACKUP_TIMES_STR == <<HH_MM("2", "2", "0", "0"), HH_MM("0", "5", "0", "0")>>

\* str.strip(): the blanks at both ends removed
RECURSIVE lstrip(_)
lstrip(s) == IF Len(s) > 0 /\ Head(s) = " " THEN lstrip(Tail(s)) ELSE s
RECURSIVE rstrip(_)
rstrip(s) == IF Len(s) > 0 /\ s[Len(s)] = " " THEN rstrip(SubSeq(s, 1, Len(s) - 1)) ELSE s
strip(s) == rstrip(lstrip(s))

\* [t.strip() for t in text.split(',') if t.strip()]
RECURSIVE stripped_pieces(_)
stripped_pieces(text) ==
    IF Len(text) = 0 THEN <<>>
    ELSE (IF Len(strip(Head(text))) > 0 THEN <<strip(Head(text))>> ELSE <<>>)
         \o stripped_pieces(Tail(text))

\* the check of parse_times on one time (lines 20-24)
valid_time(t) ==
    /\ Len(t) = 5
    /\ t[3] = ":"
    /\ isdigit(SubSeq(t, 1, 2)) /\ isdigit(SubSeq(t, 4, 5))
    /\ ParseDecimal(SubSeq(t, 1, 2)) <= 23
    /\ ParseDecimal(SubSeq(t, 4, 5)) <= 59

\* parse_times(time_str): the times of the text, or [] when one of them is invalid
parse_times(time_str) ==
    IF time_str = EmptyText THEN <<>>
    ELSE IF \A i \in 1..Len(stripped_pieces(time_str)) : valid_time(stripped_pieces(time_str)[i])
    THEN stripped_pieces(time_str)
    ELSE <<>>

\* the urls of TARGET_URLS (load_config, line 106): a url is the one word of its piece
target_urls(text) == [i \in 1..Len(stripped_pieces(text)) |-> stripped_pieces(text)[i][1]]

\* the in-memory value of a key that was removed (save_config_value, lines 162, 179-185)
ConfigDefault(key) ==
    CASE key = "URL_CODES" -> EmptyDict
      [] key = "LAST_MANUAL_PREFIX" -> DEFAULT_LAST_MANUAL_PREFIX
      [] key = "LOG_LEVEL" -> DEFAULT_LOG_LEVEL_STR
      [] key = "TARGET_URLS" -> <<>>
      [] key = "SCRAPE_TIMES_PRIMARY" -> parse_times(DEFAULT_PRIMARY_TIMES_STR)
      [] key = "SCRAPE_TIMES_BACKUP" -> parse_times(DEFAULT_BACKUP_TIMES_STR)
      [] OTHER -> None

load_config(w) ==
    LET env == load_dotenv(w.file, w.environ)
        opt(key) == IF key \in DOMAIN env THEN Some(env[key]) ELSE None
    IN [w EXCEPT
          !.environ = env,
          !.config = [SUPABASE_URL |-> opt("SUPABASE_URL"),
                      SUPABASE_KEY |-> opt("SUPABASE_KEY"),
                      LOG_LEVEL |-> getenv(env, "LOG_LEVEL", DEFAULT_LOG_LEVEL_STR),
                      LAST_MANUAL_PREFIX |->
                          getenv(env, "LAST_MANUAL_PREFIX", DEFAULT_LAST_MANUAL_PREFIX),
                      URL_CODES |-> json_loads(getenv(env, "URL_CODES", json_dumps(EmptyDict))),
                      TARGET_URLS |-> target_urls(getenv(env, "TARGET_URLS", EmptyText)),
                      SCRAPE_TIMES_PRIMARY |->
                          parse_times(getenv(env, "SCRAPE_TIMES_PRIMARY", DEFAULT_PRIMARY_TIMES_STR)),
                      SCRAPE_TIMES_BACKUP |->
                          parse_times(getenv(env, "SCRAPE_TIMES_BACKUP", DEFAULT_BACKUP_TIMES_STR))]]

\* get_config(): reloads when the log level is the default and os.environ holds none
get_config(w) ==
    IF w.config.LOG_LEVEL = DEFAULT_LOG_LEVEL_STR /\ "LOG_LEVEL" \notin DOMAIN w.environ
    THEN load_config(w)
    ELSE w

\* the values save_config_value is given
PyDict(d) == [isNone |-> FALSE, type |-> "dict", val |-> d]
PyStr(s) == [isNone |-> FALSE, type |-> "str", val |-> s]

\* save_config_value(key, value).  writable: whether the .env file can be rewritten;
\* when it cannot, set_key/unset_key raise and the exception leaves the function.
save_config_value(w, key, value, writable) ==
    IF key = "URL_CODES" /\ ~IsNone(value) /\ value.type # "dict"
    THEN [w |-> w, raised |-> FALSE]
    ELSE IF ~writable
    THEN [w |-> w, raised |-> TRUE]
    ELSE IF key = "URL_CODES" /\ ~IsNone(value)
    THEN [w |-> load_config([w EXCEPT !.file = set_key(w.file, key, json_dumps(value.val))]),
          raised |-> FALSE]
    ELSE IF key = "URL_CODES"
    THEN [w |-> load_config([w EXCEPT !.file = unset_key(w.file, key),
                                      !.config = [w.config EXCEPT !.URL_CODES = ConfigDefault(key)]]),
          raised |-> FALSE]
    ELSE IF IsNone(value)
    THEN [w |-> load_config([w EXCEPT !.file = unset_key(w.file, key),
                                      !.environ = DictDel(w.environ, key),
                                      !.config = [w.config EXCEPT ![key] = ConfigDefault(key)]]),
          raised |-> FALSE]
    ELSE [w |-> load_config([w EXCEPT !.file = set_key(w.file, key, value.val)]),
          raised |-> FALSE]

\* random.choices(string.ascii_uppercase, k=2) at attempt 0, 1, 2, ... of one call.
\* The draws of a call are: draws.first at the attempts below draws.switchAt,
\* draws.rest from there on.
random_code(draws, attempt) == IF attempt < draws.switchAt THEN draws.first ELSE draws.rest

\* a variant of the loop that takes the first drawn code, assigned or not
generate_new_code_unchecked(existing_codes, draws) == Some(random_code(draws, 0))

\* a variant of the loop that makes one attempt more
generate_new_code_one_more_attempt(existing_codes, draws) ==
    LET attempts == 0..MAX_CODE_GENERATION_ATTEMPTS
        free(a) == random_code(draws, a) \notin existing_codes
    IN IF \E a \in attempts : free(a)
       THEN Some(random_code(draws,
                 CHOOSE a \in attempts : free(a) /\ \A b \in 0..(a - 1) : ~free(b)))
       ELSE None

\* the loop of get_or_assign_url_code: the first drawn code that is not assigned, if
\* one of the attempts draws such a code
generate_new_code(existing_codes, draws) ==
    LET attempts == 0..(MAX_CODE_GENERATION_ATTEMPTS - 1)
        free(a) == random_code(draws, a) \notin existing_codes
    IN IF \E a \in attempts : free(a)
       THEN Some(random_code(draws,
                 CHOOSE a \in attempts : free(a) /\ \A b \in 0..(a - 1) : ~free(b)))
       ELSE None

\* a variant that saves the new pair alone in place of the updated copy
get_or_assign_url_code_overwriting(w, url, draws, writable) ==
    IF url = ""
    THEN [w |-> w, ret |-> None, raised |-> FALSE]
    ELSE IF url \in DOMAIN w.config.URL_CODES
    THEN [w |-> w, ret |-> Some(w.config.URL_CODES[url]), raised |-> FALSE]
    ELSE LET new_code == generate_new_code(Values(w.config.URL_CODES), draws)
         IN IF IsNone(new_code)
            THEN [w |-> w, ret |-> None, raised |-> FALSE]
            ELSE LET saved == save_config_value(w, "URL_CODES",
                                  PyDict(DictSet(EmptyDict, url, new_code.val)), writable)
                 IN IF saved.raised
                    THEN [w |-> saved.w, ret |-> None, raised |-> TRUE]
                    ELSE [w |-> saved.w, ret |-> new_code, raised |-> FALSE]

\* a variant that returns the new code whether or not it was saved
url_code_assigned_unpersisted(saved, new_code) ==
    [w |-> saved.w, ret |-> new_code, raised |-> FALSE]

\* lines 264-272 of get_or_assign_url_code: saved is what save_config_value did
url_code_assigned(saved, new_code) ==
    IF saved.raised
    THEN [w |-> saved.w, ret |-> None, raised |-> TRUE]
    ELSE [w |-> saved.w, ret |-> new_code, raised |-> FALSE]

get_or_assign_url_code(w, url, draws, writable) ==
    IF url = ""
    THEN [w |-> w, ret |-> None, raised |-> FALSE]
    ELSE IF url \in DOMAIN w.config.URL_CODES
    THEN [w |-> w, ret |-> Some(w.config.URL_CODES[url]), raised |-> FALSE]
    ELSE LET new_code == generate_new_code(Values(w.config.URL_CODES), draws)
         IN IF IsNone(new_code)
            THEN [w |-> w, ret |-> None, raised |-> FALSE]
            ELSE url_code_assigned(
                     save_config_value(w, "URL_CODES",
                         PyDict(DictSet(w.config.URL_CODES, url, new_code.val)), writable),
                     new_code)

----------------------------------------------------------------------------
(* databasemanager.py: the local connection and the sequence counter *)

Connection == Some("sqlite3.Connection")

\* get_local_db_connection(): connects when no connection is cached; connects says
\* whether sqlite3.connect succeeds
get_local_db_connection(w, connects) ==
    IF ~IsNone(w.conn) THEN w
    ELSE IF connects THEN [get_config(w) EXCEPT !.conn = Connection]
    ELSE get_config(w)

\* a variant that leaves the connection as it is
close_local_db_connection_left_open(w) == w

\* close_local_db_connection() (lines 70-78)
close_local_db_connection(w) == [w EXCEPT !.conn = None]

\* the statements of get_next_sequence at which sqlite3.Error may be raised
SequenceFaults == {"none", "update", "insert", "select", "commit"}

\* lines 160-187 of get_next_sequence, c the world after get_local_db_connection().
\* The UPDATE and the INSERT act on the open transaction; commit makes it the
\* table, rollback drops it.
next_sequence_of(c, key, fault) ==
    LET rowcount == IF key \in DOMAIN c.counters THEN 1 ELSE 0
        updated == IF rowcount = 1 THEN [c.counters EXCEPT ![key] = @ + 1] ELSE c.counters
        inserted == DictSet(updated, key, 1)
        rolled_back == [w |-> c, ret |-> None]
    IN IF IsNone(c.conn) THEN [w |-> c, ret |-> None]
       ELSE IF fault = "update" THEN rolled_back
       ELSE IF rowcount = 0
       THEN IF fault \in {"insert", "commit"} THEN rolled_back
            ELSE [w |-> [c EXCEPT !.counters = inserted], ret |-> Some(1)]
       ELSE IF fault \in {"select", "commit"} THEN rolled_back
            ELSE [w |-> [c EXCEPT !.counters = updated], ret |-> Some(updated[key])]

\* a variant whose except branch does not roll back: the UPDATE of a call that
\* fails at the SELECT or at the commit stays
next_sequence_of_no_rollback(c, key, fault) ==
    LET rowcount == IF key \in DOMAIN c.counters THEN 1 ELSE 0
        updated == IF rowcount = 1 THEN [c.counters EXCEPT ![key] = @ + 1] ELSE c.counters
        inserted == DictSet(updated, key, 1)
    IN IF IsNone(c.conn) \/ fault = "update" THEN [w |-> c, ret |-> None]
       ELSE IF rowcount = 0
       THEN IF fault \in {"insert", "commit"} THEN [w |-> c, ret |-> None]
            ELSE [w |-> [c EXCEPT !.counters = inserted], ret |-> Some(1)]
       ELSE IF fault \in {"select", "commit"}
            THEN [w |-> [c EXCEPT !.counters = updated], ret |-> None]
            ELSE [w |-> [c EXCEPT !.counters = updated], ret |-> Some(updated[key])]

\* a variant of get_next_sequence without the rollback
get_next_sequence_no_rollback(w, url_code, prefix_char, connects, fault) ==
    next_sequence_of_no_rollback(get_local_db_connection(w, connects),
                                 <<url_code, prefix_char>>, fault)

\* a variant whose UPDATE leaves the prefix char out of its WHERE clause: a
\* successful call raises the counter of every key of the url code
raised_per_url_code(r, url_code, prefix_char) ==
    IF IsNone(r.ret) THEN r
    ELSE [w |-> [r.w EXCEPT !.counters =
                    [k \in DOMAIN @ |-> IF k[1] = url_code /\ k[2] # prefix_char
                                        THEN @[k] + 1 ELSE @[k]]],
          ret |-> r.ret]
get_next_sequence_per_url_code(w, url_code, prefix_char, connects, fault) ==
    raised_per_url_code(next_sequence_of(get_local_db_connection(w, connects),
                                         <<url_code, prefix_char>>, fault),
                        url_code, prefix_char)

\* a variant that reports the next number and leaves the table as it was
unpersisted(w, r) == [w |-> [r.w EXCEPT !.counters = w.counters], ret |-> r.ret]
get_next_sequence_unpersisted(w, url_code, prefix_char, connects, fault) ==
    unpersisted(w, next_sequence_of(get_local_db_connection(w, connects),
                                    <<url_code, prefix_char>>, fault))

\* get_next_sequence(url_code, prefix_char)
get_next_sequence(w, url_code, prefix_char, connects, fault) ==
    next_sequence_of(get_local_db_connection(w, connects), <<url_code, prefix_char>>, fault)

----------------------------------------------------------------------------
(* utils.py: the identifier *)

valid_prefixes == {"P", "B", "T", "M"}

NotCalled == [isNone |-> TRUE, called |-> FALSE]

\* a variant of the sequence source that reports 1 for every successful call
first_only(r) == [w |-> r.w, ret |-> IF IsNone(r.ret) THEN None ELSE Some(1)]
call_sequence_func_constant(f, w, url_code, prefix_char, connects, fault) ==
    IF f.kind = "get_next_sequence"
    THEN first_only(get_next_sequence(w, url_code, prefix_char, connects, fault))
    ELSE [w |-> w, ret |-> f.ret]

\* get_next_sequence_func(url_code, prefix_char): get_next_sequence itself, or a
\* function that returns f.ret whatever it is given
call_sequence_func(f, w, url_code, prefix_char, connects, fault) ==
    IF f.kind = "get_next_sequence"
    THEN get_next_sequence(w, url_code, prefix_char, connects, fault)
    ELSE [w |-> w, ret |-> f.ret]

\* a variant of the sequence field without the cap
sequence_str_uncapped(sequence_int) == FormatZeroPadded(sequence_int, 3)

\* the sequence field: capped at SEQUENCE_CAP, then f"{sequence_int:03d}"
sequence_str(sequence_int) ==
    FormatZeroPadded(IF sequence_int > SEQUENCE_CAP THEN SEQUENCE_CAP ELSE sequence_int, 3)

\* lines 64-72 of generate_custom_uuid: coded is what get_or_assign_url_code
\* returned, s what the sequence source did
uuid_of_sequence(coded, s, prefix_char, run_number_str, env) ==
    IF IsNone(s.ret) \/ s.ret.val < 0
    THEN [w |-> s.w, ret |-> None, raised |-> FALSE, seq |-> s.ret, code |-> coded.ret]
    ELSE [w |-> s.w,
          ret |-> Some(<<prefix_char>> \o run_number_str \o coded.ret.val \o
                       strftime(ClockReadings[env.clock]) \o env.salt \o
                       sequence_str(s.ret.val)),
          raised |-> FALSE,
          seq |-> s.ret,
          code |-> coded.ret]

\* lines 47-62 of generate_custom_uuid
uuid_of_code(coded, prefix_char, run_number_str, f, env) ==
    IF coded.raised
    THEN [w |-> coded.w, ret |-> None, raised |-> TRUE, seq |-> NotCalled, code |-> None]
    ELSE IF IsNone(coded.ret)
    THEN [w |-> coded.w, ret |-> None, raised |-> FALSE, seq |-> NotCalled, code |-> None]
    ELSE uuid_of_sequence(coded,
                          call_sequence_func(f, coded.w, coded.ret.val, prefix_char,
                                             env.connects, env.fault),
                          prefix_char, run_number_str, env)

\* lines 27-42: the check that rejects the arguments, the first in program order,
\* "none" when all four pass
rejected_by(prefix_char, run_number_str, url, f) ==
    IF prefix_char \notin valid_prefixes THEN "prefix_char"
    ELSE IF ~(Len(run_number_str) = 2 /\ isdigit(run_number_str)) THEN "run_number_str"
    ELSE IF url = "" THEN "url"
    ELSE IF f.kind = "not_callable" THEN "get_next_sequence_func"
    ELSE "none"

\* a variant that fetches the url code before it validates its arguments
generate_custom_uuid_validating_late(w, prefix_char, run_number_str, url, f, env) ==
    IF rejected_by(prefix_char, run_number_str, url, f) # "none"
    THEN [w |-> get_or_assign_url_code(w, url, env.draws, env.writable).w,
          ret |-> None, raised |-> FALSE, seq |-> NotCalled, code |-> None]
    ELSE uuid_of_code(get_or_assign_url_code(w, url, env.draws, env.writable),
                      prefix_char, run_number_str, f, env)

\* generate_custom_uuid(prefix_char, run_number_str, url, get_next_sequence_func).
\* env: draws, writable (the registry), clock (datetime.now()), salt (random.choices),
\* connects, fault (the sequence source).  Beside the result: seq is what the
\* sequence source returned (NotCalled when it was not called) and code what
\* get_or_assign_url_code returned.
generate_custom_uuid(w, prefix_char, run_number_str, url, f, env) ==
    IF rejected_by(prefix_char, run_number_str, url, f) # "none"
    THEN [w |-> w, ret |-> None, raised |-> FALSE, seq |-> NotCalled, code |-> None]
    ELSE uuid_of_code(get_or_assign_url_code(w, url, env.draws, env.writable),
                      prefix_char, run_number_str, f, env)

----------------------------------------------------------------------------
(* parser.py: tag extraction *)

\* str.split(): the maximal runs of characters other than the blank
RECURSIVE split(_)
split(s) ==
    IF Len(s) = 0 THEN <<>>
    ELSE IF Head(s) = " " THEN split(Tail(s))
    ELSE LET blanks == {i \in 1..Len(s) : s[i] = " "}
             n == IF blanks = {} THEN Len(s)
                  ELSE (CHOOSE i \in blanks : \A j \in blanks : i <= j) - 1
         IN <<SubSeq(s, 1, n)>> \o split(SubSeq(s, n + 1, Len(s)))

\* sep.join(parts) for parts that are character sequences
RECURSIVE join(_, _)
join(sep, parts) ==
    IF Len(parts) = 0 THEN <<>>
    ELSE IF Len(parts) = 1 THEN parts[1]
    ELSE parts[1] \o sep \o join(sep, Tail(parts))

\* get_element_path(element): the tags from the element up to 'html' or the root,
\* root first, joined by ' > '.  element.ancestors: the tags of parent, grandparent, ...
RECURSIVE path_parts(_)
path_parts(chain) ==
    IF Len(chain) = 0 THEN <<>>
    ELSE IF Head(chain) = "html" THEN <<Head(chain)>>
    ELSE <<Head(chain)>> \o path_parts(Tail(chain))

reverse(s) == [i \in 1..Len(s) |-> s[Len(s) + 1 - i]]

get_element_path(element) ==
    LET parts == reverse(path_parts(<<element.tag>> \o element.ancestors))
    IN IF Len(parts) = 0 THEN <<"document_fragment">>
       ELSE join(<<" > ">>, [i \in 1..Len(parts) |-> <<parts[i]>>])

\* parse_html_tags_from_list(elements): one record per Element, the others skipped
RECURSIVE parse_html_tags_from_list(_)
parse_html_tags_from_list(elements) ==
    IF Len(elements) = 0 THEN <<>>
    ELSE LET element == Head(elements)
             rest == parse_html_tags_from_list(Tail(elements))
         IN IF ~element.isElement THEN rest
            ELSE << [tag_type |-> element.tag,
                     content |-> join(<<" ">>, split(element.text)),
                     location |-> get_element_path(element),
                     attributes |-> element.attrs] >> \o rest

\* The pages of the model, and what HTML(html=page).find('*') finds in each
EMPTY_PAGE == ""
COMMENT_PAGE == "<!-- c -->"
ONE_TAG_PAGE == "<p> a  b </p>"
TWO_TAG_PAGE == "<div id='x'><p>a</p></div>"

find_all(html_content) ==
    CASE html_content = ONE_TAG_PAGE ->
            << [isElement |-> TRUE, tag |-> "p", ancestors |-> <<>>,
                text |-> <<" ", "a", " ", " ", "b", " ">>, attrs |-> EmptyDict] >>
      [] html_content = TWO_TAG_PAGE ->
            << [isElement |-> TRUE, tag |-> "div", ancestors |-> <<>>,
                text |-> <<"a">>, attrs |-> [k \in {"id"} |-> "x"]],
               [isElement |-> TRUE, tag |-> "p", ancestors |-> <<"div">>,
                text |-> <<"a">>, attrs |-> EmptyDict] >>
      [] OTHER -> <<>>

----------------------------------------------------------------------------
(* databasemanager.py: save_scrape_data *)

SupabaseClient == Some("supabase.Client")

\* 'not value' of an optional configuration string
Unset(value) == IsNone(value) \/ value.val = ""

\* lines 86-98 of get_supabase_client, c the world after get_config()
supabase_client_of(c, creates) ==
    IF Unset(c.config.SUPABASE_URL) \/ Unset(c.config.SUPABASE_KEY) THEN c
    ELSE IF creates THEN [c EXCEPT !.sb = SupabaseClient]
    ELSE c

\* get_supabase_client(): creates says whether create_client succeeds
get_supabase_client(w, creates) ==
    IF ~IsNone(w.sb) THEN w ELSE supabase_client_of(get_config(w), creates)

\* the elements of a sequence at the positions not in skip, in order
RECURSIVE Without(_, _, _)
Without(s, skip, i) ==
    IF i > Len(s) THEN <<>>
    ELSE (IF i \in skip THEN <<>> ELSE <<s[i]>>) \o Without(s, skip, i + 1)

\* the row of html_tag_data for one extracted tag
local_tag_row(capture_id, tag_info) ==
    [capture_uuid |-> capture_id, tag_type |-> tag_info.tag_type,
     content |-> tag_info.content, location |-> tag_info.location,
     attributes |-> json_dumps(tag_info.attributes)]

supabase_tag_payload(capture_id, tag_info) ==
    [capture_uuid |-> capture_id, tag_type |-> tag_info.tag_type,
     content |-> tag_info.content, location |-> tag_info.location,
     attributes |-> tag_info.attributes]

\* a variant of the local transaction whose rollback takes back the capture row
\* and leaves the tag rows inserted before the failure
local_transaction_keeping_tags(w, row, fault, tagFaults) ==
    LET tag_data_list == parse_html_tags_from_list(find_all(row.html_content))
        tag_rows == [i \in 1..Len(tag_data_list) |->
                        local_tag_row(row.capture_uuid, tag_data_list[i])]
    IN IF \E i \in 1..Len(w.pages) : w.pages[i].capture_uuid = row.capture_uuid
       THEN [w |-> w, saved_locally |-> FALSE, tag_data_list |-> <<>>]
       ELSE IF fault \in {"capture", "parse"}
       THEN [w |-> w, saved_locally |-> FALSE, tag_data_list |-> <<>>]
       ELSE IF fault = "commit"
       THEN [w |-> [w EXCEPT !.tags = @ \o Without(tag_rows, tagFaults, 1)],
             saved_locally |-> FALSE, tag_data_list |-> tag_data_list]
       ELSE [w |-> [w EXCEPT !.pages = Append(@, row),
                             !.tags = @ \o Without(tag_rows, tagFaults, 1)],
             saved_locally |-> TRUE, tag_data_list |-> tag_data_list]

\* a variant of the local transaction on a table without the UNIQUE constraint
local_transaction_without_unique(w, row, fault, tagFaults) ==
    LET tag_data_list == parse_html_tags_from_list(find_all(row.html_content))
        tag_rows == [i \in 1..Len(tag_data_list) |->
                        local_tag_row(row.capture_uuid, tag_data_list[i])]
    IN IF fault \in {"capture", "parse"}
       THEN [w |-> w, saved_locally |-> FALSE, tag_data_list |-> <<>>]
       ELSE IF fault = "commit"
       THEN [w |-> w, saved_locally |-> FALSE, tag_data_list |-> tag_data_list]
       ELSE [w |-> [w EXCEPT !.pages = Append(@, row),
                             !.tags = @ \o Without(tag_rows, tagFaults, 1)],
             saved_locally |-> TRUE, tag_data_list |-> tag_data_list]

\* a variant of the local transaction that keeps one capture row per url: the
\* new row takes the place of the earlier rows of its url
local_transaction_replacing(w, row, fault, tagFaults) ==
    IF local_transaction_without_unique(w, row, fault, tagFaults).saved_locally
    THEN [w |-> [local_transaction_without_unique(w, row, fault, tagFaults).w EXCEPT
                    !.pages = SelectSeq(@, LAMBDA r : r.url # row.url \/ r = row)],
          saved_locally |-> TRUE,
          tag_data_list |->
              local_transaction_without_unique(w, row, fault, tagFaults).tag_data_list]
    ELSE local_transaction_without_unique(w, row, fault, tagFaults)

\* The local transaction of save_scrape_data (lines 225-271) on an open connection.
\*   fault: "capture" (the capture INSERT raises), "parse" (HTML(...).find raises),
\*          "commit" (commit raises), "none";
\*   tagFaults: the positions of the tags whose INSERT raises.
\* A capture_uuid already in the table raises sqlite3.IntegrityError (UNIQUE).
local_transaction(w, row, fault, tagFaults) ==
    LET duplicate_uuid == \E i \in 1..Len(w.pages) : w.pages[i].capture_uuid = row.capture_uuid
        all_elements == find_all(row.html_content)
        tag_data_list == IF Len(all_elements) > 0
                         THEN parse_html_tags_from_list(all_elements) ELSE <<>>
        tag_rows == [i \in 1..Len(tag_data_list) |->
                        local_tag_row(row.capture_uuid, tag_data_list[i])]
        rolled_back(tags) == [w |-> w, saved_locally |-> FALSE, tag_data_list |-> tags]
    IN IF duplicate_uuid \/ fault = "capture" THEN rolled_back(<<>>)
       ELSE IF fault = "parse" THEN rolled_back(<<>>)
       ELSE IF fault = "commit" THEN rolled_back(tag_data_list)
       ELSE [w |-> [w EXCEPT !.pages = Append(@, row),
                             !.tags = @ \o Without(tag_rows, tagFaults, 1)],
             saved_locally |-> TRUE,
             tag_data_list |-> tag_data_list]

\* a variant of the remote mirror that takes the local capture row back when the
\* remote capture insert did not succeed
remote_mirror_compensating(w, row, tag_data_list, capture, tagFails) ==
    IF capture = "ok"
    THEN [w EXCEPT !.sb_pages = Append(@, row)]
    ELSE [w EXCEPT !.pages = SubSeq(@, 1, Len(@) - 1)]

\* a variant of the remote mirror whose tag loop ends at the first insert that fails
remote_mirror_stopping_at_failure(w, row, tag_data_list, capture, tagFails) ==
    LET payloads == [i \in 1..Len(tag_data_list) |->
                        supabase_tag_payload(row.capture_uuid, tag_data_list[i])]
        after_capture == IF capture = "ok" THEN [w EXCEPT !.sb_pages = Append(@, row)] ELSE w
        reached == {i \in 1..Len(tag_data_list) : \A j \in 1..i : j \notin tagFails}
    IN IF capture = "raise" THEN w
       ELSE [after_capture EXCEPT
                !.sb_tags = @ \o [i \in 1..Cardinality(reached) |-> payloads[i]]]

\* The remote mirror of save_scrape_data (lines 276-315) with a client.
\*   capture: "ok", "error" (the response carries an error), "raise" (execute raises);
\*   tagFails: the positions of the tags whose insert answers with an error or raises.
remote_mirror(w, row, tag_data_list, capture, tagFails) ==
    LET payloads == [i \in 1..Len(tag_data_list) |->
                        supabase_tag_payload(row.capture_uuid, tag_data_list[i])]
        after_capture == IF capture = "ok" THEN [w EXCEPT !.sb_pages = Append(@, row)] ELSE w
    IN IF capture = "raise" THEN w
       ELSE [after_capture EXCEPT !.sb_tags = @ \o Without(payloads, tagFails, 1)]

\* The environment of a save_scrape_data call, env: that of generate_custom_uuid,
\* and dupFault (the identical-content SELECT raises), localFault, tagFaults,
\* sbCreates, sbCapture, sbTagFails.  Beside the result of the call: gen is the
\* outcome of generate_custom_uuid, saved_locally the flag of line 223, row the
\* capture row built at line 216.

\* What the remote mirror attempts, in program order (lines 277-302): the capture
\* insert, and unless it raised one insert for each tag of tag_data_list; ok says
\* whether the attempt was answered without an error
remote_attempts(tag_data_list, capture, tagFails) ==
    <<[op |-> "remote capture", tag |-> 0, ok |-> capture = "ok"]>> \o
    (IF capture = "raise" THEN <<>>
     ELSE [i \in 1..Len(tag_data_list) |->
              [op |-> "remote tag", tag |-> i, ok |-> i \notin tagFails]])

\* tags_saved_to_supabase_count after the loop of lines 285-300, None where the
\* loop is not reached (line 283 or an exception of the capture insert)
tags_saved_to_supabase_count(tag_data_list, capture, tagFails) ==
    IF capture = "raise" \/ Len(tag_data_list) = 0 THEN None
    ELSE Some(Cardinality({i \in 1..Len(tag_data_list) : i \notin tagFails}))

\* lines 304-305: the warning that fewer tags were saved than extracted
warning_logged(tag_data_list, count) ==
    ~IsNone(count) /\ count.val < Len(tag_data_list)

\* the record of a call that did not reach the local transaction
not_persisted(w, gen, raised) ==
    [w |-> w, ret |-> None, raised |-> raised, gen |-> gen,
     saved_locally |-> FALSE, row |-> None, events |-> <<>>,
     tags_saved_to_supabase_count |-> None, warned |-> FALSE]

\* lines 273-321 for a given decision to mirror: local is what the local
\* transaction did, s the world after get_supabase_client(), count the tag counter
save_returned(gen, row, local, s, env, mirrors, count) ==
    [w |-> IF mirrors
           THEN remote_mirror(s, row, local.tag_data_list, env.sbCapture, env.sbTagFails)
           ELSE s,
     ret |-> IF local.saved_locally THEN Some(row.capture_uuid) ELSE None,
     raised |-> FALSE, gen |-> gen,
     saved_locally |-> local.saved_locally,
     row |-> Some(row),
     events |-> (IF local.saved_locally
                 THEN <<[op |-> "local commit", tag |-> 0, ok |-> TRUE]>> ELSE <<>>)
                \o (IF mirrors
                    THEN remote_attempts(local.tag_data_list, env.sbCapture, env.sbTagFails)
                    ELSE <<>>),
     tags_saved_to_supabase_count |-> IF mirrors THEN count ELSE None,
     warned |-> mirrors /\ warning_logged(local.tag_data_list, count)]

\* a variant that mirrors whenever there is a client, whatever the local
\* transaction did
save_mirrored_unconditionally(gen, row, local, s, env) ==
    save_returned(gen, row, local, s, env, ~IsNone(s.sb),
                  tags_saved_to_supabase_count(local.tag_data_list, env.sbCapture, env.sbTagFails))

\* lines 273-321: the mirror is attempted with a client after a local commit (line 275)
save_mirrored(gen, row, local, s, env) ==
    save_returned(gen, row, local, s, env, ~IsNone(s.sb) /\ local.saved_locally,
                  tags_saved_to_supabase_count(local.tag_data_list, env.sbCapture, env.sbTagFails))

\* line 274
save_persisted(gen, row, local, env) ==
    save_mirrored(gen, row, local, get_supabase_client(local.w, env.sbCreates), env)

\* lines 202-271: c is the world after get_local_db_connection()
save_connected(gen, c, url, html_content, scrape_type, version, env) ==
    LET has_conn == ~IsNone(c.conn)
        identical_match_value ==
            IF has_conn /\ ~env.dupFault /\
               \E i \in 1..Len(c.pages) :
                   c.pages[i].url = url /\ c.pages[i].html_content = html_content
            THEN 1 ELSE 0
        data_to_insert_main ==
            [capture_uuid |-> gen.ret.val, url |-> url,
             scrape_type |-> scrape_type, html_content |-> html_content,
             identical_match |-> identical_match_value, version |-> version]
    IN save_persisted(gen, data_to_insert_main,
                      IF has_conn
                      THEN local_transaction(c, data_to_insert_main,
                                             env.localFault, env.tagFaults)
                      ELSE [w |-> c, saved_locally |-> FALSE, tag_data_list |-> <<>>],
                      env)

\* lines 200-202: g is what generate_custom_uuid did
save_generated(g, gen, url, html_content, scrape_type, version, env) ==
    IF g.raised \/ IsNone(g.ret)
    THEN not_persisted(g.w, gen, g.raised)
    ELSE save_connected(gen, get_local_db_connection(g.w, env.connects),
                        url, html_content, scrape_type, version, env)

outcome_of(g) == [ret |-> g.ret, raised |-> g.raised, seq |-> g.seq, code |-> g.code]
save_identified(g, url, html_content, scrape_type, version, env) ==
    save_generated(g, outcome_of(g), url, html_content, scrape_type, version, env)

\* save_scrape_data from line 199 on, for html_content that is not empty
save_content(w, url, html_content, scrape_type, prefix_char, run_number_str, version, env) ==
    save_identified(generate_custom_uuid(w, prefix_char, run_number_str, url,
                                         [kind |-> "get_next_sequence"], env),
                    url, html_content, scrape_type, version, env)

\* save_scrape_data without the check of lines 194-197
save_scrape_data_unchecked(w, url, html_content, scrape_type, prefix_char, run_number_str, version, env) ==
    save_content(w, url, html_content, scrape_type, prefix_char, run_number_str, version, env)

\* save_scrape_data(url, html_content, scrape_type, prefix_char, run_number_str, version)
save_scrape_data(w, url, html_content, scrape_type, prefix_char, run_number_str, version, env) ==
    IF html_content = ""
    THEN not_persisted(w, [ret |-> None, raised |-> FALSE, seq |-> NotCalled, code |-> None],
                       FALSE)
    ELSE save_content(w, url, html_content, scrape_type, prefix_char, run_number_str,
                      version, env)

----------------------------------------------------------------------------
(* The state machine *)

World ==
    [file |-> envFile, environ |-> osEnviron, config |-> CONFIG,
     conn |-> local_db_connection, sb |-> supabase_client,
     counters |-> sequential_counters, pages |-> scraped_pages, tags |-> html_tag_data,
     sb_pages |-> sb_scraped_pages, sb_tags |-> sb_html_tag_data]

SetWorld(w) ==
    /\ envFile' = w.file
    /\ osEnviron' = w.environ
    /\ CONFIG' = w.config
    /\ local_db_connection' = w.conn
    /\ supabase_client' = w.sb
    /\ sequential_counters' = w.counters
    /\ scraped_pages' = w.pages
    /\ html_tag_data' = w.tags
    /\ sb_scraped_pages' = w.sb_pages
    /\ sb_html_tag_data' = w.sb_tags

\* CONFIG as the module defines it, before load_config() runs at import
INITIAL_CONFIG ==
    [SUPABASE_URL |-> None, SUPABASE_KEY |-> None, LOG_LEVEL |-> DEFAULT_LOG_LEVEL_STR,
     LAST_MANUAL_PREFIX |-> DEFAULT_LAST_MANUAL_PREFIX, URL_CODES |-> EmptyDict,
     TARGET_URLS |-> <<>>, SCRAPE_TIMES_PRIMARY |-> <<>>, SCRAPE_TIMES_BACKUP |-> <<>>]

\* a process started on the persisted file and tables: no connection, no client,
\* a fresh os.environ, and CONFIG loaded at import (configmanager.py line 218)
StartProcess(w) ==
    load_config([w EXCEPT !.environ = EmptyDict, !.config = INITIAL_CONFIG,
                          !.conn = None, !.sb = None])

(* The inputs of the model *)

URL_A == "https://a.example"
URL_B == "http://b.example"
Urls == {URL_A, URL_B}

CODE_AA == <<"A", "A">>
CODE_AB == <<"A", "B">>

\* the draws of one get_or_assign_url_code call: always AA, always AB, AA at
\* every attempt but the last and AB at the last, or AA at every attempt and AB
\* from the draw that would follow the last attempt
DrawPatterns ==
    {[switchAt |-> MAX_CODE_GENERATION_ATTEMPTS, first |-> CODE_AA, rest |-> CODE_AA],
     [switchAt |-> MAX_CODE_GENERATION_ATTEMPTS, first |-> CODE_AB, rest |-> CODE_AB],
     [switchAt |-> MAX_CODE_GENERATION_ATTEMPTS - 1, first |-> CODE_AA, rest |-> CODE_AB],
     [switchAt |-> MAX_CODE_GENERATION_ATTEMPTS, first |-> CODE_AA, rest |-> CODE_AB]}

SALT_1 == <<"R", "4", "N", "D", "0", "M", "5", "T">>
SALT_2 == <<"A", "A", "A", "A", "A", "A", "A", "0">>
Salts == {SALT_1, SALT_2}

RUN_01 == <<"0", "1">>
RUN_99 == <<"9", "9">>

SUPABASE_SETTINGS == [k \in {"SUPABASE_URL", "SUPABASE_KEY"} |-> "set"]

\* the persisted state a process may start on: a new installation, or one in use
\* whose registry binds URL_A to AA and whose counter of <<AA, "P">> is UsedSequence
NewFile == EmptyDict
UsedFile == set_key(NewFile, "URL_CODES", json_dumps([u \in {URL_A} |-> CODE_AA]))
UsedCounters == [k \in {<<CODE_AA, "P">>} |-> UsedSequence]

InitialWorld(file, counters) ==
    StartProcess([file |-> file, environ |-> EmptyDict, config |-> INITIAL_CONFIG,
                  conn |-> None, sb |-> None, counters |-> counters,
                  pages |-> <<>>, tags |-> <<>>, sb_pages |-> <<>>, sb_tags |-> <<>>])

\* no activation of run_pending_schedules
NotRunning ==
    [pc |-> "not running", end_time |-> None, polls |-> 0, due |-> <<>>,
     pending |-> None, exit |-> "none"]

InitFrom(w) ==
    /\ envFile = w.file
    /\ osEnviron = w.environ
    /\ CONFIG = w.config
    /\ local_db_connection = w.conn
    /\ supabase_client = w.sb
    /\ sequential_counters = w.counters
    /\ scraped_pages = w.pages
    /\ html_tag_data = w.tags
    /\ sb_scraped_pages = w.sb_pages
    /\ sb_html_tag_data = w.sb_tags
    /\ now = 1
    /\ lastCall = [op |-> "start"]
    /\ jobs = <<>>
    /\ _stop_scheduler = FALSE
    /\ loop = NotRunning
    /\ seqCalls = EmptyDict
    /\ seqBase = w.counters
    /\ boundCode = w.config.URL_CODES

(* Observations *)

Count(f, k) == IF k \in DOMAIN f THEN f[k] ELSE 0
SeqIssued == SumOver(seqCalls, DOMAIN seqCalls)

\* a successful return of get_next_sequence for <<code, prefix_char>> is counted
ObserveSequence(viaCounter, code, prefix_char, seq) ==
    seqCalls' = IF viaCounter /\ ~IsNone(seq)
                THEN DictSet(seqCalls, <<code.val, prefix_char>>,
                             Count(seqCalls, <<code.val, prefix_char>>) + 1)
                ELSE seqCalls

\* the first code get_or_assign_url_code returns for a url is remembered
ObserveCode(url, code) ==
    boundCode' = IF ~IsNone(code) /\ url \notin DOMAIN boundCode
                 THEN DictSet(boundCode, url, code.val)
                 ELSE boundCode

(* Steps that are no call of the pipeline *)

\* the clock advances
Tick ==
    /\ now < Len(ClockReadings)
    /\ now' = now + 1
    /\ UNCHANGED <<envFile, osEnviron, CONFIG, local_db_connection, supabase_client,
                   sequential_counters, scraped_pages, html_tag_data,
                   sb_scraped_pages, sb_html_tag_data, lastCall, seqCalls, seqBase, boundCode,
                   jobs, _stop_scheduler, loop>>

\* the process ends and a new one starts on the same file and database
Restart ==
    /\ \E w \in {StartProcess(World)} : SetWorld(w)
    /\ lastCall' = [op |-> "restart"]
    /\ jobs' = <<>>
    /\ _stop_scheduler' = FALSE
    /\ loop' = NotRunning
    /\ UNCHANGED <<now, seqCalls, seqBase, boundCode>>

CallCloseLocalDbConnection ==
    /\ SetWorld(close_local_db_connection(World))
    /\ lastCall' = [op |-> "close_local_db_connection"]
    /\ UNCHANGED <<now, seqCalls, seqBase, boundCode, jobs, _stop_scheduler, loop>>

(* Calls *)

CallGetNextSequence ==
    \E url_code \in {CODE_AA, CODE_AB}, prefix_char \in {"P", "B"},
       connects \in BOOLEAN, fault \in SequenceFaults :
      \E r \in {get_next_sequence(World, url_code, prefix_char, connects, fault)} :
           /\ SeqIssued < MaxSeqCalls
           /\ SetWorld(r.w)
           /\ lastCall' = [op |-> "get_next_sequence", url_code |-> url_code,
                           prefix_char |-> prefix_char, connects |-> connects,
                           fault |-> fault, ret |-> r.ret]
           /\ ObserveSequence(TRUE, Some(url_code), prefix_char, r.ret)
           /\ UNCHANGED <<now, seqBase, boundCode, jobs, _stop_scheduler, loop>>

CallGetOrAssignUrlCode ==
    \E url \in Urls \cup {""}, draws \in DrawPatterns, writable \in BOOLEAN :
      \E r \in {get_or_assign_url_code(World, url, draws, writable)} :
           /\ SetWorld(r.w)
           /\ lastCall' = [op |-> "get_or_assign_url_code", url |-> url,
                           had_code |-> url \in DOMAIN CONFIG.URL_CODES,
                           ret |-> r.ret, raised |-> r.raised]
           /\ ObserveCode(url, r.ret)
           /\ UNCHANGED <<now, seqCalls, seqBase, jobs, _stop_scheduler, loop>>

\* save_config_value as main.py calls it: the manual prefix and the Supabase settings
CallSaveConfigValue ==
    \E key \in {"LAST_MANUAL_PREFIX", "SUPABASE_URL", "SUPABASE_KEY"},
       value \in {PyStr("T"), PyStr("M"), None}, writable \in BOOLEAN :
      \E r \in {save_config_value(World, key, value, writable)} :
           /\ (key = "LAST_MANUAL_PREFIX") = ~IsNone(value)
           /\ SetWorld(r.w)
           /\ lastCall' = [op |-> "save_config_value", key |-> key, value |-> value,
                           raised |-> r.raised]
           /\ UNCHANGED <<now, seqCalls, seqBase, boundCode, jobs, _stop_scheduler, loop>>

CallLoadConfig ==
    /\ \E w \in {load_config(World)} : SetWorld(w)
    /\ lastCall' = [op |-> "load_config"]
    /\ UNCHANGED <<now, seqCalls, seqBase, boundCode, jobs, _stop_scheduler, loop>>

\* the sequence sources given to generate_custom_uuid beside get_next_sequence
StubReturns == {None, Some(-1), Some(0), Some(42), Some(SEQUENCE_CAP), Some(SEQUENCE_CAP + 1)}
Stubs == {[kind |-> "stub", ret |-> v] : v \in StubReturns} \cup {[kind |-> "not_callable"]}

\* <<prefix_char, run_number_str, url>>: valid arguments, and invalid ones
ValidArguments ==
    ({"P", "B", "T", "M"} \X {RUN_01} \X {URL_A}) \cup {<<"P", RUN_99, URL_B>>}
InvalidArguments ==
    {<<"X", RUN_01, URL_A>>, <<"P", <<"1">>, URL_A>>, <<"P", <<"A", "1">>, URL_A>>,
     <<"P", <<"0", "0", "1">>, URL_A>>, <<"P", RUN_01, "">>,
     <<"X", <<"1">>, "">>, <<"P", <<"1">>, "">>, <<"X", <<"1">>, URL_A>>}

\* the calls of the model: <<arguments, sequence source>>
StubCalls ==
    (ValidArguments \X {[kind |-> "stub", ret |-> Some(n)] : n \in {0, 42, SEQUENCE_CAP + 1}})
    \cup ({<<"P", RUN_01, URL_A>>} \X Stubs)
    \cup (InvalidArguments \X {[kind |-> "stub", ret |-> Some(42)]})

GenerateStep(args, f, env) ==
    \E r \in {generate_custom_uuid(World, args[1], args[2], args[3], f, env)} :
       /\ SetWorld(r.w)
       /\ lastCall' = [op |-> "generate_custom_uuid", prefix_char |-> args[1],
                       run_number_str |-> args[2], url |-> args[3], func |-> f.kind,
                       rejected |-> rejected_by(args[1], args[2], args[3], f),
                       draws |-> env.draws,
                       ret |-> r.ret, raised |-> r.raised, seq |-> r.seq, code |-> r.code]
       /\ ObserveSequence(f.kind = "get_next_sequence", r.code, args[1], r.seq)
       /\ ObserveCode(args[3], r.code)
       /\ UNCHANGED <<now, seqBase, jobs, _stop_scheduler, loop>>

\* the registry draws of a call matter only for a url without a code
DrawsFor(url) ==
    IF url \in DOMAIN CONFIG.URL_CODES \/ url = ""
    THEN {d \in DrawPatterns : d.first = CODE_AA /\ d.rest = CODE_AA}
    ELSE DrawPatterns
WritableFor(url) == IF url \in DOMAIN CONFIG.URL_CODES \/ url = "" THEN {TRUE} ELSE BOOLEAN

\* any arguments, a sequence source that is no counter
CallGenerateWithStub ==
    \E call \in StubCalls, salt \in Salts :
      \E draws \in DrawsFor(call[1][3]), writable \in WritableFor(call[1][3]) :
        GenerateStep(call[1], call[2],
                     [draws |-> draws, writable |-> writable, clock |-> now,
                      salt |-> salt, connects |-> TRUE, fault |-> "none"])

\* invalid arguments, get_next_sequence as the sequence source
CallGenerateRejected ==
    \E args \in InvalidArguments :
      \E draws \in DrawsFor(args[3]), writable \in WritableFor(args[3]) :
        GenerateStep(args, [kind |-> "get_next_sequence"],
                     [draws |-> draws, writable |-> writable, clock |-> now,
                      salt |-> SALT_1, connects |-> TRUE, fault |-> "none"])

\* the arguments of the commented test of utils.py, a sequence source that is no counter
DummySources == {[kind |-> "stub", ret |-> v] : v \in {None, Some(0), Some(42)}}
CallGenerateWithDummy ==
    \E f \in DummySources, draws \in DrawsFor(URL_A) :
        GenerateStep(<<"P", RUN_01, URL_A>>, f,
                     [draws |-> draws, writable |-> TRUE, clock |-> now,
                      salt |-> SALT_1, connects |-> TRUE, fault |-> "none"])

\* what the database does to one get_next_sequence call: <<connects, fault>>
CounterOutcomes == {<<TRUE, "none">>, <<FALSE, "none">>, <<TRUE, "update">>}

\* valid arguments, get_next_sequence as the sequence source
CounterArguments == {<<"P", RUN_01, URL_A>>, <<"T", RUN_01, URL_A>>, <<"P", RUN_01, URL_B>>}
CallGenerateWithCounter ==
    \E args \in CounterArguments, salt \in Salts, db \in CounterOutcomes :
      \E draws \in DrawsFor(args[3]), writable \in WritableFor(args[3]) :
        /\ SeqIssued < MaxSeqCalls
        /\ GenerateStep(args, [kind |-> "get_next_sequence"],
                        [draws |-> draws, writable |-> writable, clock |-> now,
                         salt |-> salt, connects |-> db[1], fault |-> db[2]])

\* What the environment does to one save_scrape_data call: every statement
\* succeeds (Smooth), or one of them fails
Smooth ==
    [connects |-> TRUE, fault |-> "none", dupFault |-> FALSE, localFault |-> "none",
     tagFaults |-> {}, sbCreates |-> TRUE, sbCapture |-> "ok", sbTagFails |-> {}]

SaveOutcomes ==
    {Smooth,
     [Smooth EXCEPT !.connects = FALSE],
     [Smooth EXCEPT !.fault = "update"],
     [Smooth EXCEPT !.dupFault = TRUE],
     [Smooth EXCEPT !.localFault = "capture"],
     [Smooth EXCEPT !.localFault = "parse"],
     [Smooth EXCEPT !.localFault = "commit"],
     [Smooth EXCEPT !.tagFaults = {1}],
     [Smooth EXCEPT !.tagFaults = {1, 2}],
     [Smooth EXCEPT !.sbCreates = FALSE],
     [Smooth EXCEPT !.sbCapture = "error"],
     [Smooth EXCEPT !.sbCapture = "raise"],
     [Smooth EXCEPT !.sbTagFails = {1}]}

\* the calls of the model, <<url, html_content, prefix_char, outcome>>: every page
\* of URL_A and two pages of URL_B in a smooth environment, an invalid prefix, and
\* every failure on the pages with elements of URL_A
SaveCalls ==
    ({URL_A} \X {EMPTY_PAGE, COMMENT_PAGE, ONE_TAG_PAGE, TWO_TAG_PAGE} \X {"P"} \X {Smooth})
    \cup ({URL_B} \X {EMPTY_PAGE, ONE_TAG_PAGE} \X {"P"} \X {Smooth})
    \cup {<<URL_A, ONE_TAG_PAGE, "X", Smooth>>}
    \cup ({URL_A} \X {TWO_TAG_PAGE} \X {"P"} \X SaveOutcomes)
    \cup {<<URL_A, ONE_TAG_PAGE, "P", [Smooth EXCEPT !.tagFaults = {1}]>>}

\* the registry draws of a save: the same code at every attempt
SaveDraws(url) == {d \in DrawsFor(url) : d.first = d.rest}

\* save_scrape_data as perform_scrape and manual_scrape call it (version left at 1)
CallSaveScrapeData ==
    \E call \in SaveCalls :
     \E url \in {call[1]}, html_content \in {call[2]}, prefix_char \in {call[3]}, o \in {call[4]} :
      \E draws \in SaveDraws(url), writable \in WritableFor(url) :
        \E r \in {save_scrape_data(World, url, html_content, "primary", prefix_char,
                                   RUN_01, 1,
                                   [draws |-> draws, writable |-> writable, clock |-> now,
                                    salt |-> SALT_1, connects |-> o.connects,
                                    fault |-> o.fault, dupFault |-> o.dupFault,
                                    localFault |-> o.localFault, tagFaults |-> o.tagFaults,
                                    sbCreates |-> o.sbCreates, sbCapture |-> o.sbCapture,
                                    sbTagFails |-> o.sbTagFails])} :
           /\ SeqIssued < MaxCaptures
           /\ SetWorld(r.w)
           /\ lastCall' = [op |-> "save_scrape_data", url |-> url,
                           html_content |-> html_content, prefix_char |-> prefix_char,
                           run_number_str |-> RUN_01, outcome |-> o,
                           ret |-> r.ret, raised |-> r.raised, gen |-> r.gen,
                           saved_locally |-> r.saved_locally, row |-> r.row,
                           events |-> r.events,
                           tags_saved_to_supabase_count |-> r.tags_saved_to_supabase_count,
                           warned |-> r.warned]
           /\ ObserveSequence(TRUE, r.gen.code, prefix_char, r.gen.seq)
           /\ ObserveCode(url, r.gen.code)
           /\ UNCHANGED <<now, seqBase, jobs, _stop_scheduler, loop>>

----------------------------------------------------------------------------
(* scheduler.py: the job table *)

\* a url without a scheme
URL_C == "c.example"

\* str.startswith(prefix) on the urls of the model
startswith(url, prefix) == <<url, prefix>> \in {<<URL_A, "https://">>, <<URL_B, "http://">>}

Min(a, b) == IF a <= b THEN a ELSE b

\* schedule.every().day.at(t).do(perform_scrape, url=..., scrape_type=..., run_index=idx)
Job(url, scrape_type, idx, t) ==
    [url |-> url, scrape_type |-> scrape_type, run_index |-> idx, at |-> t]

\* The most run indices a category has: idx >= 9 is not scheduled (lines 63, 73)
MAX_RUN_INDICES == 9

\* a variant of the loop over the times without the check of idx
jobs_of_times_uncapped(url, scrape_type, times) ==
    [scheduled |-> [i \in 1..Len(times) |-> Job(url, scrape_type, i - 1, times[i])],
     logged |-> <<>>]

\* a variant of the loop over the times that counts the times from 1
jobs_of_times_from_one(url, scrape_type, times) ==
    [scheduled |-> [i \in 1..Min(Len(times), MAX_RUN_INDICES) |->
                       Job(url, scrape_type, i, times[i])],
     logged |-> [i \in 1..(Len(times) - Min(Len(times), MAX_RUN_INDICES)) |->
                    [level |-> "ERROR", message |-> "Failed to schedule", url |-> url,
                     scrape_type |-> scrape_type, at |-> times[i + MAX_RUN_INDICES]]]]

\* One loop over the times of a category (lines 61-69, 71-79): enumerate counts
\* from 0.  At idx >= 9 the call of warning, a name scheduler.py does not import,
\* raises NameError; the except clause of the loop body logs an error and the
\* loop goes on with the next time.
jobs_of_times(url, scrape_type, times) ==
    [scheduled |-> [i \in 1..Min(Len(times), MAX_RUN_INDICES) |->
                       Job(url, scrape_type, i - 1, times[i])],
     logged |-> [i \in 1..(Len(times) - Min(Len(times), MAX_RUN_INDICES)) |->
                    [level |-> "ERROR", message |-> "Failed to schedule", url |-> url,
                     scrape_type |-> scrape_type, at |-> times[i + MAX_RUN_INDICES]]]]

\* the body of the loop over the urls (lines 57-79) for one url
jobs_of_url(url, primary_times, backup_times) ==
    IF ~startswith(url, "http://") /\ ~startswith(url, "https://")
    THEN [scheduled |-> <<>>,
          logged |-> <<[level |-> "ERROR", message |-> "Invalid URL format", url |-> url]>>]
    ELSE [scheduled |-> jobs_of_times(url, "primary", primary_times).scheduled
                        \o jobs_of_times(url, "backup", backup_times).scheduled,
          logged |-> jobs_of_times(url, "primary", primary_times).logged
                     \o jobs_of_times(url, "backup", backup_times).logged]

\* a variant of the loop over the urls that ends at the first url without a scheme
RECURSIVE jobs_of_urls_ending_at_invalid(_, _, _)
jobs_of_urls_ending_at_invalid(urls, primary_times, backup_times) ==
    IF Len(urls) = 0 \/ jobs_of_url(Head(urls), primary_times, backup_times).scheduled = <<>>
    THEN [scheduled |-> <<>>, logged |-> <<>>]
    ELSE [scheduled |-> jobs_of_url(Head(urls), primary_times, backup_times).scheduled
                        \o jobs_of_urls_ending_at_invalid(Tail(urls), primary_times,
                                                          backup_times).scheduled,
          logged |-> <<>>]

\* the loop over the urls (line 56)
RECURSIVE jobs_of_urls(_, _, _)
jobs_of_urls(urls, primary_times, backup_times) ==
    IF Len(urls) = 0 THEN [scheduled |-> <<>>, logged |-> <<>>]
    ELSE [scheduled |-> jobs_of_url(Head(urls), primary_times, backup_times).scheduled
                        \o jobs_of_urls(Tail(urls), primary_times, backup_times).scheduled,
          logged |-> jobs_of_url(Head(urls), primary_times, backup_times).logged
                     \o jobs_of_urls(Tail(urls), primary_times, backup_times).logged]

\* setup_schedules(): c is the world after get_config().  schedule.clear() empties
\* the job table before the loops fill it.
schedules_of(c) ==
    [w |-> c,
     jobs |-> jobs_of_urls(c.config.TARGET_URLS, c.config.SCRAPE_TIMES_PRIMARY,
                           c.config.SCRAPE_TIMES_BACKUP).scheduled,
     logged |-> jobs_of_urls(c.config.TARGET_URLS, c.config.SCRAPE_TIMES_PRIMARY,
                             c.config.SCRAPE_TIMES_BACKUP).logged]

setup_schedules(w) == schedules_of(get_config(w))

(* The settings of the schedule in the model *)

T_0800 == HH_MM("0", "8", "0", "0")
T_0900 == HH_MM("0", "9", "0", "0")
T_2200 == HH_MM("2", "2", "0", "0")
T_2500 == HH_MM("2", "5", "0", "0")

\* ten times: 10:00, 10:01, ..., 10:09
TenTimes == [i \in 1..10 |-> HH_MM("1", "0", "0", DigitChars[i])]

\* the texts given for TARGET_URLS
TargetUrlTexts ==
    {EmptyText,
     << <<URL_A>> >>,
     << <<URL_C>>, <<URL_A>> >>,
     << <<URL_A>>, <<URL_C>>, <<" ">>, <<" ", URL_B, " ">> >>}

\* the texts given for SCRAPE_TIMES_PRIMARY and SCRAPE_TIMES_BACKUP
PrimaryTimeTexts ==
    {EmptyText,
     <<T_0800, <<" ">> \o T_0800 \o <<" ">>, <<>>, T_0900>>,
     <<T_0800, T_2500>>,
     TenTimes}
BackupTimeTexts == {EmptyText, <<T_2200>>}

ScheduleSettings ==
    ({"TARGET_URLS"} \X TargetUrlTexts)
    \cup ({"SCRAPE_TIMES_PRIMARY"} \X PrimaryTimeTexts)
    \cup ({"SCRAPE_TIMES_BACKUP"} \X BackupTimeTexts)

\* save_config_value as the commands setup and update-scrape-times of main.py call it
CallSaveScheduleSetting ==
    \E setting \in ScheduleSettings :
      \E r \in {save_config_value(World, setting[1], PyStr(setting[2]), TRUE)} :
           /\ SetWorld(r.w)
           /\ lastCall' = [op |-> "save_config_value", key |-> setting[1],
                           value |-> PyStr(setting[2]), raised |-> r.raised]
           /\ UNCHANGED <<now, seqCalls, seqBase, boundCode, jobs, _stop_scheduler, loop>>

\* a setting of the schedule is removed (save_config_value(key, None))
CallRemoveScheduleSetting ==
    \E key \in {"SCRAPE_TIMES_PRIMARY", "SCRAPE_TIMES_BACKUP"} :
      \E r \in {save_config_value(World, key, None, TRUE)} :
           /\ SetWorld(r.w)
           /\ lastCall' = [op |-> "save_config_value", key |-> key,
                           value |-> None, raised |-> r.raised]
           /\ UNCHANGED <<now, seqCalls, seqBase, boundCode, jobs, _stop_scheduler, loop>>

\* a variant of schedule.clear() that leaves the jobs in the table
schedule_clear_keeping(job_table) == job_table

\* schedule.clear() (line 46)
schedule_clear(job_table) == <<>>

\* setup_schedules(): the table is cleared, then the loops add the jobs
CallSetupSchedules ==
    \E r \in {setup_schedules(World)} :
       /\ loop.pc = "not running"
       /\ SetWorld(r.w)
       /\ jobs' = schedule_clear(jobs) \o r.jobs
       /\ lastCall' = [op |-> "setup_schedules", logged |-> r.logged,
                       cleared |-> Len(jobs)]
       /\ UNCHANGED <<now, seqCalls, seqBase, boundCode, _stop_scheduler, loop>>

(* scheduler.py and scraper.py: the jobs and the loop *)

worldVars == <<envFile, osEnviron, CONFIG, local_db_connection, supabase_client,
               sequential_counters, scraped_pages, html_tag_data,
               sb_scraped_pages, sb_html_tag_data>>

\* 'P' if scrape_type == 'primary' else 'B' (line 30)
prefix_char_of(scrape_type) == IF scrape_type = "primary" THEN "P" ELSE "B"

\* a variant that formats the run index itself
run_number_str_zero_based(run_index) == FormatZeroPadded(run_index, 2)

\* f"{run_index + 1:02d}" (line 32)
run_number_str_of(run_index) == FormatZeroPadded(run_index + 1, 2)

\* fetch_html(url): None for a url without a scheme and whenever the request or
\* the page fails (every exception is caught), else the html of the response
fetch_html(url, response) ==
    IF ~startswith(url, "http://") /\ ~startswith(url, "https://") THEN None ELSE response

\* what the site answers to one request
FetchResponses == {None, Some(ONE_TAG_PAGE)}

\* what the environment does to the save of one job
JobOutcomes ==
    {Smooth,
     [Smooth EXCEPT !.connects = FALSE],
     [Smooth EXCEPT !.localFault = "commit"],
     [Smooth EXCEPT !.sbCapture = "raise"]}

\* the arguments of run_pending_schedules
RunDurations == {None, Some(0), Some(1)}

\* end_time (lines 106-109), in sleeps of the loop since its start
end_time_of(run_duration_days) ==
    IF ~IsNone(run_duration_days) /\ run_duration_days.val > 0
    THEN Some(run_duration_days.val * DayPolls)
    ELSE None

\* the jobs schedule.run_pending() finds due in one pass, in the order it runs them
DueChoices ==
    {<<>>} \cup {<<j>> : j \in 1..Len(jobs)} \cup (IF Len(jobs) >= 2 THEN {<<1, 2>>} ELSE {})

Running == loop.pc \in {"while", "run_pending", "in save", "check duration", "check flag"}

\* a variant of the entry that leaves the flag as it finds it
stop_flag_on_entry_kept(stop_flag) == stop_flag

\* "_stop_scheduler = False" on entry (line 97)
stop_flag_on_entry(stop_flag) == FALSE

\* run_pending_schedules(run_duration_days) up to the loop (lines 96-111)
CallRunPendingSchedules ==
    \E run_duration_days \in RunDurations :
       /\ loop.pc = "not running"
       /\ _stop_scheduler' = stop_flag_on_entry(_stop_scheduler)
       /\ loop' = IF jobs = <<>> THEN loop
                  ELSE [NotRunning EXCEPT !.pc = "while",
                                          !.end_time = end_time_of(run_duration_days)]
       /\ lastCall' = [op |-> "run_pending_schedules", started |-> jobs # <<>>,
                       run_duration_days |-> run_duration_days,
                       requested_before |-> _stop_scheduler]
       /\ UNCHANGED <<worldVars, now, seqCalls, seqBase, boundCode, jobs>>

\* a variant of the loop condition that does not read the flag
while_condition_always(stop_flag) == TRUE

\* the loop condition "not _stop_scheduler" (line 114)
while_condition(stop_flag) == ~stop_flag

\* "while not _stop_scheduler" and the start of schedule.run_pending() (lines 114-115)
WhileNotStopped ==
    /\ loop.pc = "while"
    /\ \E due \in DueChoices :
          loop' = IF while_condition(_stop_scheduler)
                  THEN [loop EXCEPT !.pc = "run_pending", !.due = due]
                  ELSE [loop EXCEPT !.pc = "finally", !.exit = "flag"]
    /\ UNCHANGED <<worldVars, now, lastCall, seqCalls, seqBase, boundCode, jobs, _stop_scheduler>>

JobEnv(o, draws, writable) ==
    [draws |-> draws, writable |-> writable, clock |-> now, salt |-> SALT_1,
     connects |-> o.connects, fault |-> o.fault, dupFault |-> o.dupFault,
     localFault |-> o.localFault, tagFaults |-> o.tagFaults, sbCreates |-> o.sbCreates,
     sbCapture |-> o.sbCapture, sbTagFails |-> o.sbTagFails]

\* what is recorded of save_scrape_data as a job called it
SaveRecord(job, r) ==
    [op |-> "perform_scrape", job |-> job, fetched |-> TRUE,
     run_number_str |-> run_number_str_of(job.run_index),
     ret |-> r.ret, raised |-> r.raised, gen |-> r.gen, saved_locally |-> r.saved_locally,
     events |-> r.events]

\* perform_scrape: fetch_html failed (lines 34, 39); r is what perform_scrape did
JobWithoutPage(job, r) ==
    /\ SetWorld(r.w)
    /\ lastCall' = [op |-> "perform_scrape", job |-> job, fetched |-> FALSE,
                    run_number_str |-> run_number_str_of(job.run_index),
                    ret |-> r.ret, raised |-> r.raised]
    /\ loop' = [loop EXCEPT !.due = Tail(loop.due)]
    /\ UNCHANGED <<seqCalls, boundCode>>

\* the world between the INSERT of line 229 and the commit or rollback of a call
\* that does r from the world w: the identifier is generated and the connection
\* is open, the rows of the call are not in the tables, the mirror has not begun
before_commit(w, r) ==
    [r.w EXCEPT !.pages = w.pages, !.tags = w.tags, !.sb = w.sb,
                !.sb_pages = w.sb_pages, !.sb_tags = w.sb_tags]

\* perform_scrape with a page: r is what save_scrape_data does.  Without an
\* identifier or a connection there is no local transaction and the call runs to
\* its end, where an exception leaves perform_scrape and schedule.run_pending()
\* and reaches the except clause of the loop (line 128).  Else the INSERT of
\* line 229 opens the transaction.
JobWithPage(job, r) ==
    /\ SeqIssued < MaxCaptures
    /\ ObserveSequence(TRUE, r.gen.code, prefix_char_of(job.scrape_type), r.gen.seq)
    /\ ObserveCode(job.url, r.gen.code)
    /\ IF r.raised \/ IsNone(r.gen.ret) \/ IsNone(r.w.conn)
       THEN /\ SetWorld(r.w)
            /\ lastCall' = SaveRecord(job, r)
            /\ loop' = IF r.raised
                       THEN [loop EXCEPT !.pc = "finally", !.exit = "exception"]
                       ELSE [loop EXCEPT !.due = Tail(loop.due)]
       ELSE /\ SetWorld(before_commit(World, r))
            /\ lastCall' = [op |-> "INSERT", job |-> job]
            /\ loop' = [loop EXCEPT !.pc = "in save",
                                    !.pending = Some([job |-> job, r |-> r])]

\* a variant that saves a page when the fetch gave none
perform_scrape_saving_without_page(w, job, html_content, env) ==
    save_scrape_data(w, job.url,
                     IF IsNone(html_content) THEN ONE_TAG_PAGE ELSE html_content.val,
                     job.scrape_type, prefix_char_of(job.scrape_type),
                     run_number_str_of(job.run_index), 1, env)

\* perform_scrape(url, scrape_type, run_index) after fetch_html (lines 34-39):
\* "if html_content" saves, else only an error is logged
perform_scrape(w, job, html_content, env) ==
    IF IsNone(html_content)
    THEN [w |-> w, ret |-> None, raised |-> FALSE]
    ELSE save_scrape_data(w, job.url, html_content.val, job.scrape_type,
                          prefix_char_of(job.scrape_type),
                          run_number_str_of(job.run_index), 1, env)

\* one job of schedule.run_pending(): perform_scrape(url, scrape_type, run_index)
PerformScrape ==
    /\ loop.pc = "run_pending"
    /\ loop.due # <<>>
    /\ \E response \in FetchResponses, o \in JobOutcomes, job \in {jobs[Head(loop.due)]} :
        \E html_content \in {fetch_html(job.url, response)} :
         \E draws \in SaveDraws(job.url), writable \in WritableFor(job.url) :
          \E r \in {perform_scrape(World, job, html_content,
                                   JobEnv(o, draws, writable))} :
             IF IsNone(html_content) THEN JobWithoutPage(job, r) ELSE JobWithPage(job, r)
    /\ UNCHANGED <<now, seqBase, jobs, _stop_scheduler>>

\* the rest of save_scrape_data from the INSERT on: commit or rollback of the
\* local transaction (lines 261-269), the remote mirror, and the return to
\* perform_scrape
FinishSave ==
    /\ loop.pc = "in save"
    /\ SetWorld(loop.pending.val.r.w)
    /\ lastCall' = SaveRecord(loop.pending.val.job, loop.pending.val.r)
    /\ loop' = IF loop.pending.val.r.raised
               THEN [loop EXCEPT !.pc = "finally", !.exit = "exception", !.pending = None]
               ELSE [loop EXCEPT !.pc = "run_pending", !.due = Tail(loop.due),
                                 !.pending = None]
    /\ UNCHANGED <<now, seqCalls, seqBase, boundCode, jobs, _stop_scheduler>>

\* schedule.run_pending() returns and time.sleep(1) (line 116)
Sleep ==
    /\ loop.pc = "run_pending"
    /\ loop.due = <<>>
    /\ loop.polls < MaxPolls
    /\ loop' = [loop EXCEPT !.pc = "check duration", !.polls = @ + 1]
    /\ now' = Min(now + 1, Len(ClockReadings))
    /\ UNCHANGED <<worldVars, lastCall, seqCalls, seqBase, boundCode, jobs, _stop_scheduler>>

\* "if end_time and datetime.datetime.now() >= end_time" (lines 118-120)
CheckDuration ==
    /\ loop.pc = "check duration"
    /\ loop' = IF ~IsNone(loop.end_time) /\ loop.polls >= loop.end_time.val
               THEN [loop EXCEPT !.pc = "finally", !.exit = "duration"]
               ELSE [loop EXCEPT !.pc = "check flag"]
    /\ UNCHANGED <<worldVars, now, lastCall, seqCalls, seqBase, boundCode, jobs, _stop_scheduler>>

\* "if _stop_scheduler" after the sleep (lines 122-124)
CheckFlag ==
    /\ loop.pc = "check flag"
    /\ loop' = IF _stop_scheduler
               THEN [loop EXCEPT !.pc = "finally", !.exit = "flag"]
               ELSE [loop EXCEPT !.pc = "while"]
    /\ UNCHANGED <<worldVars, now, lastCall, seqCalls, seqBase, boundCode, jobs, _stop_scheduler>>

\* stop_scheduler_flag(), called from outside the loop at any moment
CallStopSchedulerFlag ==
    /\ ~_stop_scheduler
    /\ _stop_scheduler' = TRUE
    /\ UNCHANGED <<worldVars, now, lastCall, seqCalls, seqBase, boundCode, jobs, loop>>

\* Ctrl+C: KeyboardInterrupt is raised in the main thread wherever it is.  No
\* except clause of fetch_html, save_scrape_data or perform_scrape catches it
\* (they name Exception or sqlite3.Error); it reaches line 126.
KeyboardInterrupt ==
    /\ Running
    /\ loop' = [loop EXCEPT !.pc = "finally", !.exit = "KeyboardInterrupt"]
    /\ UNCHANGED <<worldVars, now, lastCall, seqCalls, seqBase, boundCode, jobs, _stop_scheduler>>

\* the finally clause (lines 130-135): close_local_db_connection().  Closing the
\* connection discards what an open transaction wrote.  The command run of
\* main.py ends when run_pending_schedules returns.
Finally ==
    /\ loop.pc = "finally"
    /\ SetWorld(close_local_db_connection(World))
    /\ lastCall' = [op |-> "run_pending_schedules returned", exit |-> loop.exit,
                    in_transaction |-> ~IsNone(loop.pending)]
    /\ loop' = [NotRunning EXCEPT !.pc = "returned"]
    /\ UNCHANGED <<now, seqCalls, seqBase, boundCode, jobs, _stop_scheduler>>

----------------------------------------------------------------------------
(* Specifications *)

InitNewOrUsed ==
    \E start \in {<<NewFile, EmptyDict>>, <<UsedFile, UsedCounters>>} :
        InitFrom(InitialWorld(start[1], start[2]))

\* the capture pipeline: an installation with the Supabase settings in its file
Init ==
    \E start \in {<<NewFile, EmptyDict>>, <<UsedFile, UsedCounters>>} :
        InitFrom(InitialWorld(load_dotenv(SUPABASE_SETTINGS, start[1]), start[2]))
Next == CallSaveScrapeData \/ Tick \/ Restart
Spec == Init /\ [][Next]_vars

\* the sequence counter alone
NextSeq == CallGetNextSequence \/ CallCloseLocalDbConnection \/ Restart
SpecSeq == InitNewOrUsed /\ [][NextSeq]_vars

\* the identifier generator on every kind of argument
NextArgs == CallGenerateWithStub \/ CallGenerateRejected \/ Tick \/ Restart
SpecArgs == InitNewOrUsed /\ [][NextArgs]_vars

\* the identifier generator on the sequence counter
NextUuid == CallGenerateWithCounter \/ CallGenerateWithDummy \/ Tick \/ Restart
SpecUuid == InitNewOrUsed /\ [][NextUuid]_vars

\* the url-code registry and the configuration
NextRegistry ==
    CallGetOrAssignUrlCode \/ CallSaveConfigValue \/ CallLoadConfig \/ Restart
SpecRegistry == InitNewOrUsed /\ [][NextRegistry]_vars

\* the settings of the schedule and the job table
NextSetup == CallSaveScheduleSetting \/ CallRemoveScheduleSetting \/ CallSetupSchedules
InitNew == InitFrom(InitialWorld(NewFile, EmptyDict))
SpecSetup == InitNew /\ [][NextSetup]_vars

\* the scheduler: an installation whose file has the Supabase settings, one
\* target url, two primary times and one backup time
ScheduledFile ==
    set_key(set_key(set_key(load_dotenv(SUPABASE_SETTINGS, NewFile),
                            "TARGET_URLS", << <<URL_A>> >>),
                    "SCRAPE_TIMES_PRIMARY", <<T_0800, T_0900>>),
            "SCRAPE_TIMES_BACKUP", <<T_2200>>)
InitScheduled == InitFrom(InitialWorld(ScheduledFile, EmptyDict))
NextScheduler ==
    \/ CallSetupSchedules
    \/ CallRunPendingSchedules
    \/ WhileNotStopped
    \/ PerformScrape
    \/ FinishSave
    \/ Sleep
    \/ CheckDuration
    \/ CheckFlag
    \/ CallStopSchedulerFlag
    \/ KeyboardInterrupt
    \/ Finally
SpecScheduler == InitScheduled /\ [][NextScheduler]_vars

----------------------------------------------------------------------------
(* Properties of the sequence counter and the identifier *)

LastIs(op) == lastCall.op = op
Succeeded == ~IsNone(lastCall.ret)
SeqField(id) == SubSeq(id, 28, 30)
Persisted(file) == json_loads(getenv(file, "URL_CODES", json_dumps(EmptyDict)))
Injective(d) == \A a, b \in DOMAIN d : d[a] = d[b] => a = b
Extends(d, e) == \A k \in DOMAIN d : k \in DOMAIN e /\ e[k] = d[k]

\* C1: for each key <<url_code, prefix_char>> the successful get_next_sequence calls
\* return 1, 2, 3, ... above the counter the key started with, whatever calls on
\* other keys, failed calls, closes of the connection and restarts come between;
\* every stored counter is its start value plus the successful calls on its own key,
\* so that no call changes the counter of another key.
C1_SequencePerKey ==
    /\ \A k \in DOMAIN sequential_counters :
          sequential_counters[k] = Count(seqBase, k) + Count(seqCalls, k)
    /\ \A k \in (DOMAIN seqBase) \cup (DOMAIN seqCalls) : k \in DOMAIN sequential_counters
    /\ (LastIs("get_next_sequence") /\ Succeeded) =>
          LET k == <<lastCall.url_code, lastCall.prefix_char>>
          IN lastCall.ret.val = Count(seqBase, k) + Count(seqCalls, k)

\* the second call on a new key returned 2 after a call on another key, the
\* connection open
C1_Witness ==
    /\ LastIs("get_next_sequence") /\ Succeeded
    /\ lastCall.ret.val = 2
    /\ Count(seqBase, <<lastCall.url_code, lastCall.prefix_char>>) = 0
    /\ \E k \in DOMAIN sequential_counters :
          /\ k # <<lastCall.url_code, lastCall.prefix_char>>
          /\ Count(seqCalls, k) = 1
    /\ IsNone(local_db_connection) = FALSE

ValidCall ==
    /\ LastIs("generate_custom_uuid")
    /\ lastCall.prefix_char \in {"P", "B", "T", "M"}
    /\ Len(lastCall.run_number_str) = 2
    /\ \A i \in 1..2 : IsDigitChar(lastCall.run_number_str[i])
    /\ lastCall.url # ""
    /\ lastCall.func # "not_callable"

SourceReturned == ~IsNone(lastCall.seq) /\ lastCall.seq.val >= 0

C3_Saturation ==
    (ValidCall /\ SourceReturned) =>
        /\ Succeeded
        /\ Len(SeqField(lastCall.ret.val)) = 3
        /\ IF lastCall.seq.val > 999
           THEN SeqField(lastCall.ret.val) = <<"9", "9", "9">>
           ELSE ParseDecimal(SeqField(lastCall.ret.val)) = lastCall.seq.val
        /\ lastCall.func = "get_next_sequence" =>
              LET k == <<lastCall.code.val, lastCall.prefix_char>>
              IN /\ sequential_counters[k] = lastCall.seq.val
                 /\ lastCall.seq.val = Count(seqBase, k) + Count(seqCalls, k)

\* the counter returned 1001 and holds 1001 while the identifier ends in 999
C3_Witness ==
    /\ ValidCall /\ Succeeded
    /\ lastCall.func = "get_next_sequence"
    /\ lastCall.seq.val = SEQUENCE_CAP + 2
    /\ sequential_counters[<<lastCall.code.val, lastCall.prefix_char>>] = SEQUENCE_CAP + 2
    /\ SeqField(lastCall.ret.val) = <<"9", "9", "9">>

CounterCall(c) ==
    /\ c.op = "generate_custom_uuid"
    /\ c.func = "get_next_sequence"
    /\ ~IsNone(c.ret)

\* C4: of two successive successful generate_custom_uuid calls on get_next_sequence
\* with the same prefix, run number and url, the first made while the counter is
\* below 999, the second returns another identifier with the same prefix, run
\* number and url code and its sequence field is the first one's plus one: 001
\* then 002 on a new key.
C4_Successive ==
    [][(/\ CounterCall(lastCall) /\ CounterCall(lastCall')
        /\ seqCalls' # seqCalls
        /\ lastCall'.prefix_char = lastCall.prefix_char
        /\ lastCall'.run_number_str = lastCall.run_number_str
        /\ lastCall'.url = lastCall.url
        /\ lastCall.seq.val < 999)
       => (/\ lastCall'.ret.val # lastCall.ret.val
           /\ SubSeq(lastCall'.ret.val, 1, 5) = SubSeq(lastCall.ret.val, 1, 5)
           /\ ParseDecimal(SeqField(lastCall'.ret.val)) =
                 ParseDecimal(SeqField(lastCall.ret.val)) + 1
           /\ lastCall.seq.val = 1 =>
                 /\ SeqField(lastCall.ret.val) = <<"0", "0", "1">>
                 /\ SeqField(lastCall'.ret.val) = <<"0", "0", "2">>)]_vars

\* the second call on a new key returned an identifier that ends in 002
C4_Witness ==
    /\ CounterCall(lastCall)
    /\ Count(seqCalls, <<lastCall.code.val, lastCall.prefix_char>>) = 2
    /\ Count(seqBase, <<lastCall.code.val, lastCall.prefix_char>>) = 0
    /\ SeqField(lastCall.ret.val) = <<"0", "0", "2">>

----------------------------------------------------------------------------
(* Properties of the url-code registry *)

C6_Injective ==
    /\ Injective(CONFIG.URL_CODES)
    /\ Injective(Persisted(envFile))

\* URL_B was given the code AB beside URL_A's code AA
C6_Witness ==
    /\ DOMAIN CONFIG.URL_CODES = {URL_A, URL_B}
    /\ LastIs("get_or_assign_url_code") /\ lastCall.url = URL_B
    /\ lastCall.ret = Some(CODE_AB)
    /\ CONFIG.URL_CODES[URL_A] = CODE_AA

----------------------------------------------------------------------------
(* Properties of save_scrape_data *)

RowsOf(table, id) == {i \in 1..Len(table) : table[i].capture_uuid = id}
Generated == ~IsNone(lastCall.gen.ret)
ExtractedTags(html_content) == parse_html_tags_from_list(find_all(html_content))

\* C7: save_scrape_data with empty content returns None and changes nothing: no
\* row of the local or the remote tables, no sequence counter, no url code in
\* memory or in the file, no connection or client.
C7_EmptyContent ==
    [][(lastCall'.op = "save_scrape_data" /\ lastCall'.html_content = EMPTY_PAGE) =>
          /\ IsNone(lastCall'.ret) /\ ~lastCall'.raised
          /\ UNCHANGED <<envFile, osEnviron, CONFIG, local_db_connection, supabase_client,
                         sequential_counters, scraped_pages, html_tag_data,
                         sb_scraped_pages, sb_html_tag_data, seqCalls, boundCode>>]_vars

\* a save with empty content for a url without a code returned None after another
\* save had written a row
C7_Witness ==
    /\ LastIs("save_scrape_data") /\ lastCall.html_content = EMPTY_PAGE
    /\ IsNone(lastCall.ret)
    /\ lastCall.url \notin DOMAIN CONFIG.URL_CODES
    /\ Len(scraped_pages) = 1

\* C8: when save_scrape_data returns an identifier, the local table holds exactly
\* one capture row with it, whose url and content are the arguments, and the
\* local tag rows with it are at least one when the content has an element.
C8_SavedRows ==
    (LastIs("save_scrape_data") /\ Succeeded) =>
        LET id == lastCall.ret.val
        IN /\ Cardinality(RowsOf(scraped_pages, id)) = 1
           /\ \A i \in RowsOf(scraped_pages, id) :
                 /\ scraped_pages[i].url = lastCall.url
                 /\ scraped_pages[i].html_content = lastCall.html_content
           /\ Len(ExtractedTags(lastCall.html_content)) > 0 =>
                 RowsOf(html_tag_data, id) # {}

\* C9: when save_scrape_data returns None after an identifier was generated, the
\* local tables hold no capture row and no tag row with that identifier.
C9_NoRowsForIdentifier ==
    (LastIs("save_scrape_data") /\ Generated /\ ~Succeeded) =>
        /\ RowsOf(scraped_pages, lastCall.gen.ret.val) = {}
        /\ RowsOf(html_tag_data, lastCall.gen.ret.val) = {}

\* C10: every capture row of the local table has a tag row for every tag extracted
\* from its content, and a save in whose local transaction a statement failed
\* returned None and left no row with its identifier.
C10_AllOrNothing ==
    /\ \A i \in 1..Len(scraped_pages) :
          Cardinality(RowsOf(html_tag_data, scraped_pages[i].capture_uuid)) =
              Len(ExtractedTags(scraped_pages[i].html_content))
    /\ (/\ LastIs("save_scrape_data") /\ Generated
        /\ \/ lastCall.outcome.localFault # "none"
           \/ lastCall.outcome.tagFaults \cap
                 (1..Len(ExtractedTags(lastCall.html_content))) # {})
       => ~Succeeded

----------------------------------------------------------------------------
(* Properties of the dual write *)

\* a step that is one save_scrape_data call (the clock stands still in a call)
SaveStep == lastCall'.op = "save_scrape_data" /\ now' = now

RemoteFailed(o) == ~o.sbCreates \/ o.sbCapture # "ok" \/ o.sbTagFails # {}
LocalTagRows(id, html_content) ==
    [i \in 1..Len(ExtractedTags(html_content)) |->
        local_tag_row(id, ExtractedTags(html_content)[i])]

\* C11: a save whose local statements all succeed on an identifier no row has yet,
\* and whose remote mirror fails (no client, the capture insert answers with an
\* error or raises, a tag insert fails), returns the identifier, and the local
\* tables are the ones before the call plus the capture row and all its tag rows.
C11_RemoteFailureKeepsLocal ==
    [][(/\ SaveStep
        /\ RemoteFailed(lastCall'.outcome)
        /\ ~IsNone(lastCall'.gen.ret)
        /\ RowsOf(scraped_pages, lastCall'.gen.ret.val) = {})
       => (/\ lastCall'.ret = Some(lastCall'.gen.ret.val)
           /\ scraped_pages' = Append(scraped_pages, lastCall'.row.val)
           /\ lastCall'.row.val.capture_uuid = lastCall'.gen.ret.val
           /\ html_tag_data' = html_tag_data \o
                 LocalTagRows(lastCall'.gen.ret.val, lastCall'.html_content))]_vars

\* the remote capture insert raised: the identifier was returned, the local tables
\* hold the capture row and both tag rows, the remote tables hold nothing of it
C11_Witness ==
    /\ LastIs("save_scrape_data") /\ Succeeded
    /\ lastCall.outcome.sbCapture = "raise"
    /\ ~IsNone(supabase_client)
    /\ Cardinality(RowsOf(scraped_pages, lastCall.ret.val)) = 1
    /\ Cardinality(RowsOf(html_tag_data, lastCall.ret.val)) = 2
    /\ RowsOf(sb_scraped_pages, lastCall.ret.val) = {}
    /\ RowsOf(sb_html_tag_data, lastCall.ret.val) = {}

\* the local statements of the call that raise
LocalFailure(c) ==
    \/ c.outcome.localFault # "none"
    \/ RowsOf(scraped_pages, c.gen.ret.val) # {}

\* C12: save_scrape_data returns the generated identifier if and only if its local
\* transaction committed a capture row; it returns None when the content is empty,
\* no identifier was generated, there is no local connection or the transaction
\* was rolled back, and the identifier in every other case.
C12_ReturnIffCommitted ==
    [][SaveStep =>
          /\ ~lastCall'.raised
          /\ ~IsNone(lastCall'.ret) <=> Len(scraped_pages') = Len(scraped_pages) + 1
          /\ ~IsNone(lastCall'.ret) =>
                /\ lastCall'.ret = lastCall'.gen.ret
                /\ scraped_pages'[Len(scraped_pages')].capture_uuid = lastCall'.ret.val
          /\ IF \/ lastCall'.html_content = EMPTY_PAGE
                \/ IsNone(lastCall'.gen.ret)
                \/ IsNone(local_db_connection')
                \/ LocalFailure(lastCall')
             THEN IsNone(lastCall'.ret) /\ scraped_pages' = scraped_pages
             ELSE ~IsNone(lastCall'.ret)]_vars

RemoteAttempt(e) == e.op \in {"remote capture", "remote tag"}
RemoteAttempts(events) == {i \in 1..Len(events) : RemoteAttempt(events[i])}
LocalCommits(events) == {i \in 1..Len(events) : events[i].op = "local commit"}
NewRows(before, after) == SubSeq(after, Len(before) + 1, Len(after))

\* C13: within one save_scrape_data call every remote write happens strictly
\* after the local commit of the same identifier: every remote capture or tag
\* insert attempted is preceded in the call by the local commit, the rows it writes
\* carry the identifier of the capture row just committed, and a call whose local
\* persist failed or was skipped attempts no remote insert and leaves both remote
\* tables as they were.
C13_RemoteAfterLocalCommit ==
    [][SaveStep =>
          /\ \A i \in RemoteAttempts(lastCall'.events) :
                 /\ \E j \in LocalCommits(lastCall'.events) : j < i
                 /\ scraped_pages' = Append(scraped_pages, lastCall'.row.val)
          /\ \A i \in 1..Len(NewRows(sb_scraped_pages, sb_scraped_pages')) :
                 NewRows(sb_scraped_pages, sb_scraped_pages')[i].capture_uuid
                     = scraped_pages'[Len(scraped_pages')].capture_uuid
          /\ \A i \in 1..Len(NewRows(sb_html_tag_data, sb_html_tag_data')) :
                 NewRows(sb_html_tag_data, sb_html_tag_data')[i].capture_uuid
                     = scraped_pages'[Len(scraped_pages')].capture_uuid
          /\ Extends(sb_scraped_pages, sb_scraped_pages')
          /\ Extends(sb_html_tag_data, sb_html_tag_data')
          /\ (IsNone(lastCall'.ret) \/ scraped_pages' = scraped_pages) =>
                 /\ RemoteAttempts(lastCall'.events) = {}
                 /\ UNCHANGED <<sb_scraped_pages, sb_html_tag_data>>]_vars

\* a save that committed locally and then mirrored the capture and both tags
C13_Witness ==
    /\ LastIs("save_scrape_data") /\ Succeeded
    /\ lastCall.events[1].op = "local commit"
    /\ RemoteAttempts(lastCall.events) = {2, 3, 4}
    /\ Cardinality(RowsOf(scraped_pages, lastCall.ret.val)) = 1
    /\ Cardinality(RowsOf(sb_scraped_pages, lastCall.ret.val)) = 1
    /\ Cardinality(RowsOf(sb_html_tag_data, lastCall.ret.val)) = 2

Mirrored(c) == c.saved_locally /\ RemoteAttempts(c.events) # {}
TagAttempts(events) == SelectSeq(events, LAMBDA e : e.op = "remote tag")
RemoteTagPayloads(id, html_content) ==
    [i \in 1..Len(ExtractedTags(html_content)) |->
        supabase_tag_payload(id, ExtractedTags(html_content)[i])]

C15_TagHasCapture ==
    \A i \in 1..Len(html_tag_data) :
        RowsOf(scraped_pages, html_tag_data[i].capture_uuid) # {}

\* tag rows are stored, and a later save failed and was rolled back
C15_Witness ==
    /\ LastIs("save_scrape_data")
    /\ lastCall.outcome.localFault = "commit"
    /\ ~lastCall.saved_locally
    /\ Len(html_tag_data) >= 2
    /\ Len(scraped_pages) = 1

UniqueIdentifiers(table) ==
    \A i, j \in 1..Len(table) : table[i].capture_uuid = table[j].capture_uuid => i = j

\* the generated identifier of the call is that of a capture row already stored
Collides(c, table) == ~IsNone(c.gen.ret) /\ RowsOf(table, c.gen.ret.val) # {}

\* C16: in every reachable state no two capture rows of the local store share an
\* identifier; a save whose generated identifier equals that of an existing
\* capture row returns None and writes no row: the capture and tag tables, local
\* and remote, are those before the call.
C16_UniqueIdentifier ==
    /\ []UniqueIdentifiers(scraped_pages)
    /\ [][(SaveStep /\ Collides(lastCall', scraped_pages)) =>
             /\ IsNone(lastCall'.ret) /\ ~lastCall'.raised /\ ~lastCall'.saved_locally
             /\ UNCHANGED <<scraped_pages, html_tag_data,
                            sb_scraped_pages, sb_html_tag_data>>]_vars

\* a save in a faultless environment generated the identifier of a stored row
C16_Witness ==
    /\ LastIs("save_scrape_data")
    /\ lastCall.outcome = Smooth
    /\ Collides(lastCall, scraped_pages)
    /\ IsNone(lastCall.ret)
    /\ Cardinality(RowsOf(scraped_pages, lastCall.gen.ret.val)) = 1

\* C17: no two successful generate_custom_uuid calls return the same identifier,
\* whatever their prefix chars, run numbers and urls, also after the counter of the
\* key has passed 999: a successful call on get_next_sequence never returns the
\* identifier that the successful call before it returned.
C17_NeverSameIdentifier ==
    [][(CounterCall(lastCall) /\ CounterCall(lastCall') /\ seqCalls' # seqCalls)
          => lastCall'.ret.val # lastCall.ret.val]_vars

ValidPrefix(c) == c.prefix_char \in {"P", "B", "T", "M"}
ValidRunNumber(c) ==
    Len(c.run_number_str) = 2 /\ \A i \in 1..2 : IsDigitChar(c.run_number_str[i])
InvalidCall(c) ==
    c.op = "generate_custom_uuid" /\ (~ValidPrefix(c) \/ ~ValidRunNumber(c) \/ c.url = "")

\* C18: generate_custom_uuid validates in the order prefix char, run number, url:
\* the check that rejects a call is the first of the three that its arguments
\* fail; the call returns None before any side effect: no url code is assigned in
\* memory or in the file, no sequence counter is created or incremented, no
\* connection is opened and the sequence source is not called.
C18_RejectsBeforeSideEffects ==
    [][InvalidCall(lastCall') =>
          /\ IsNone(lastCall'.ret) /\ ~lastCall'.raised
          /\ lastCall'.rejected = IF ~ValidPrefix(lastCall') THEN "prefix_char"
                                  ELSE IF ~ValidRunNumber(lastCall') THEN "run_number_str"
                                  ELSE "url"
          /\ lastCall'.seq = NotCalled /\ IsNone(lastCall'.code)
          /\ UNCHANGED <<envFile, osEnviron, CONFIG, local_db_connection,
                         supabase_client, sequential_counters, scraped_pages,
                         html_tag_data, sb_scraped_pages, sb_html_tag_data,
                         seqCalls, boundCode>>]_vars

\* a call on the counter with an invalid prefix and an invalid run number for a
\* url without a code was rejected for its prefix and left the registry empty
C18_Witness ==
    /\ LastIs("generate_custom_uuid")
    /\ lastCall.func = "get_next_sequence"
    /\ ~ValidPrefix(lastCall) /\ ~ValidRunNumber(lastCall)
    /\ lastCall.rejected = "prefix_char"
    /\ IsNone(lastCall.ret)
    /\ lastCall.url = URL_A
    /\ CONFIG.URL_CODES = EmptyDict
    /\ sequential_counters = EmptyDict

\* a save with content made while there is no connection and none can be opened
Unconnected(c) ==
    /\ IsNone(local_db_connection) /\ ~c.outcome.connects
    /\ c.html_content # EMPTY_PAGE

\* C19: when the local store has no connection, a save_scrape_data call with
\* non-empty content returns None and leaves no partial state: the sequence
\* counters, the url codes in memory and in the file, and the tables of both
\* stores are those before the call, also when the url had no code yet.
C19_NoConnectionNoPartialState ==
    [][(SaveStep /\ Unconnected(lastCall')) =>
          /\ IsNone(lastCall'.ret) /\ ~lastCall'.raised
          /\ CONFIG'.URL_CODES = CONFIG.URL_CODES
          /\ Persisted(envFile') = Persisted(envFile)
          /\ UNCHANGED <<sequential_counters, scraped_pages, html_tag_data,
                         sb_scraped_pages, sb_html_tag_data>>]_vars

KeyOf(c) == <<c.url_code, c.prefix_char>>

\* the call finds no connection, or one of its statements raises sqlite3.Error
Failing(c) ==
    \/ IsNone(local_db_connection) /\ ~c.connects
    \/ c.fault \in {"update", "commit"}
    \/ c.fault = "insert" /\ KeyOf(c) \notin DOMAIN sequential_counters
    \/ c.fault = "select" /\ KeyOf(c) \in DOMAIN sequential_counters

\* C20: every failing get_next_sequence call (no connection, or a database error
\* at the update, the insert, the read-back or the commit) returns None and leaves
\* the counter of every key at its value before the call; every other call
\* succeeds and raises the counter of its own key by exactly 1 (from 0 for a key
\* without a counter) and leaves the counter of every other key.
C20_FailedCallKeepsCounters ==
    [][lastCall'.op = "get_next_sequence" =>
          /\ IsNone(lastCall'.ret) <=> Failing(lastCall')
          /\ IsNone(lastCall'.ret) => sequential_counters' = sequential_counters
          /\ ~IsNone(lastCall'.ret) =>
                 /\ sequential_counters' =
                        DictSet(sequential_counters, KeyOf(lastCall'),
                                Count(sequential_counters, KeyOf(lastCall')) + 1)
                 /\ lastCall'.ret.val = sequential_counters'[KeyOf(lastCall')]]_vars

\* the read-back of a call on a key with two counters for its url code failed and
\* the counters are those the two successful calls left
C20_Witness ==
    /\ LastIs("get_next_sequence")
    /\ lastCall.fault = "select" /\ IsNone(lastCall.ret)
    /\ ~IsNone(local_db_connection)
    /\ Count(seqBase, KeyOf(lastCall)) = 0
    /\ Count(seqCalls, KeyOf(lastCall)) = 1
    /\ sequential_counters[KeyOf(lastCall)] = 1
    /\ \E k \in DOMAIN sequential_counters :
          k[1] = lastCall.url_code /\ k[2] # lastCall.prefix_char

----------------------------------------------------------------------------
(* Properties of the registry, the duplicate flag and the scheduler *)

\* a get_or_assign_url_code call that returned a code for a url that had none
NewCodeReturned(c, url_codes) ==
    /\ c.op = "get_or_assign_url_code"
    /\ ~IsNone(c.ret)
    /\ c.url \notin DOMAIN url_codes

\* C21: whenever get_or_assign_url_code returns a newly generated code for a url,
\* the binding of the url to that code is in the .env file at the return and the
\* mapping in memory equals the mapping loaded from the file; a call that could
\* not write the binding returns no code and leaves the mapping in memory.
C21_PersistedBeforeReturn ==
    [][/\ NewCodeReturned(lastCall', CONFIG.URL_CODES) =>
             /\ ~lastCall'.raised
             /\ lastCall'.url \in DOMAIN Persisted(envFile')
             /\ Persisted(envFile')[lastCall'.url] = lastCall'.ret.val
             /\ CONFIG'.URL_CODES = Persisted(envFile')
             /\ CONFIG'.URL_CODES = DictSet(CONFIG.URL_CODES, lastCall'.url, lastCall'.ret.val)
       /\ (lastCall'.op = "get_or_assign_url_code" /\ lastCall'.raised) =>
             /\ IsNone(lastCall'.ret)
             /\ UNCHANGED <<CONFIG, envFile>>]_vars

\* URL_B was given a new code beside the stored code of URL_A, and the file holds
\* both bindings
C21_Witness ==
    /\ LastIs("get_or_assign_url_code") /\ Succeeded
    /\ ~lastCall.had_code
    /\ lastCall.url = URL_B
    /\ Persisted(envFile) = CONFIG.URL_CODES
    /\ DOMAIN Persisted(envFile) = {URL_A, URL_B}
    /\ Persisted(envFile)[URL_B] = lastCall.ret.val

\* a generate_custom_uuid call with valid arguments for a url that has no code
UncodedCall(c, url_codes) ==
    /\ c.op = "generate_custom_uuid"
    /\ c.rejected = "none"
    /\ c.url \notin DOMAIN url_codes

\* the attempts of the call, of the 1000 the loop makes, that draw a code no url has
FreeAttempts(c, url_codes) ==
    {a \in 0..999 : (IF a < c.draws.switchAt THEN c.draws.first ELSE c.draws.rest)
                        \notin Values(url_codes)}

EarlierSame(table, i) ==
    {j \in 1..(i - 1) : /\ table[j].url = table[i].url
                        /\ table[j].html_content = table[i].html_content}

ValidUrls(urls) ==
    {urls[k] : k \in {n \in 1..Len(urls) : \/ startswith(urls[n], "http://")
                                           \/ startswith(urls[n], "https://")}}
TimesOf(config, scrape_type) ==
    IF scrape_type = "primary" THEN config.SCRAPE_TIMES_PRIMARY
    ELSE config.SCRAPE_TIMES_BACKUP
JobsFor(table, url, scrape_type, idx) ==
    {j \in 1..Len(table) : /\ table[j].url = url
                           /\ table[j].scrape_type = scrape_type
                           /\ table[j].run_index = idx}

\* C24: setup_schedules creates one job per valid url, category and time slot
\* (of the slots at positions 0-8, the ones a category can have) and gives it the
\* run index equal to the 0-based position of the slot in the configured list of
\* its category, duplicates included; it creates no other job.  The slots 08:00,
\* 08:00, 09:00 of one category on one url give 3 jobs with run indices 0, 1, 2.
C24_JobPerSlot ==
    [][lastCall'.op = "setup_schedules" =>
          /\ \A url \in ValidUrls(CONFIG'.TARGET_URLS), scrape_type \in {"primary", "backup"} :
                \A idx \in 0..8 :
                   idx < Len(TimesOf(CONFIG', scrape_type)) =>
                      /\ Cardinality(JobsFor(jobs', url, scrape_type, idx)) = 1
                      /\ \A j \in JobsFor(jobs', url, scrape_type, idx) :
                            jobs'[j].at = TimesOf(CONFIG', scrape_type)[idx + 1]
          /\ \A j \in 1..Len(jobs') :
                /\ jobs'[j].url \in ValidUrls(CONFIG'.TARGET_URLS)
                /\ jobs'[j].scrape_type \in {"primary", "backup"}
                /\ jobs'[j].run_index \in 0..8
                /\ jobs'[j].run_index < Len(TimesOf(CONFIG', jobs'[j].scrape_type))]_vars

\* C24 as stated, without the limit of positions: every configured slot of every
\* valid url and category has exactly one job, whose run index is its position
C24_JobPerEverySlot ==
    [][lastCall'.op = "setup_schedules" =>
          \A url \in ValidUrls(CONFIG'.TARGET_URLS), scrape_type \in {"primary", "backup"} :
             \A idx \in 0..(Len(TimesOf(CONFIG', scrape_type)) - 1) :
                /\ Cardinality(JobsFor(jobs', url, scrape_type, idx)) = 1
                /\ \A j \in JobsFor(jobs', url, scrape_type, idx) :
                      jobs'[j].at = TimesOf(CONFIG', scrape_type)[idx + 1]]_vars

\* the primary slots 08:00, 08:00, 09:00 on URL_A alone gave three jobs with the
\* run indices 0, 1, 2
C24_Witness ==
    /\ LastIs("setup_schedules")
    /\ CONFIG.TARGET_URLS = <<URL_A>>
    /\ CONFIG.SCRAPE_TIMES_PRIMARY = <<T_0800, T_0800, T_0900>>
    /\ CONFIG.SCRAPE_TIMES_BACKUP = <<>>
    /\ jobs = <<Job(URL_A, "primary", 0, T_0800), Job(URL_A, "primary", 1, T_0800),
                Job(URL_A, "primary", 2, T_0900)>>

JobsOfCategory(table, url, scrape_type) ==
    {j \in 1..Len(table) : table[j].url = url /\ table[j].scrape_type = scrape_type}
\* the log of a call of setup_schedules has a record of the skipped slot
SkipLogged(log, url, scrape_type, t) ==
    \E k \in 1..Len(log) : /\ log[k].message = "Failed to schedule"
                            /\ log[k].url = url
                            /\ log[k].scrape_type = scrape_type
                            /\ log[k].at = t

\* C26: for every url and every category setup_schedules schedules at most 9
\* jobs.  When a category has more than 9 configured slots, exactly the slots at
\* the positions 0-8 are scheduled, every slot at a position >= 9 is skipped with
\* a logged message, and setup continues: every url and category still has
\* min(number of slots, 9) jobs.
C26_AtMostNine ==
    [][lastCall'.op = "setup_schedules" =>
          \A url \in ValidUrls(CONFIG'.TARGET_URLS), scrape_type \in {"primary", "backup"} :
             /\ Cardinality(JobsOfCategory(jobs', url, scrape_type)) <= 9
             /\ Len(TimesOf(CONFIG', scrape_type)) > 9 =>
                   /\ Cardinality(JobsOfCategory(jobs', url, scrape_type)) = 9
                   /\ \A pos \in 0..8 :
                         \E j \in JobsOfCategory(jobs', url, scrape_type) :
                            /\ jobs'[j].run_index = pos
                            /\ jobs'[j].at = TimesOf(CONFIG', scrape_type)[pos + 1]
                   /\ \A pos \in 9..(Len(TimesOf(CONFIG', scrape_type)) - 1) :
                         SkipLogged(lastCall'.logged, url, scrape_type,
                                    TimesOf(CONFIG', scrape_type)[pos + 1])
                   /\ \A url2 \in ValidUrls(CONFIG'.TARGET_URLS) :
                         \A scrape_type2 \in {"primary", "backup"} :
                            Cardinality(JobsOfCategory(jobs', url2, scrape_type2))
                               = Min(Len(TimesOf(CONFIG', scrape_type2)), 9)]_vars

\* ten primary slots and one backup slot on URL_A alone gave nine primary jobs,
\* one logged skip of 10:09 and, after it, the backup job
C26_Witness ==
    /\ LastIs("setup_schedules")
    /\ CONFIG.TARGET_URLS = <<URL_A>>
    /\ CONFIG.SCRAPE_TIMES_PRIMARY = TenTimes
    /\ Len(jobs) = 10
    /\ \A i \in 1..9 : jobs[i] = Job(URL_A, "primary", i - 1, TenTimes[i])
    /\ jobs[10] = Job(URL_A, "backup", 0, T_2200)
    /\ Len(lastCall.logged) = 1
    /\ SkipLogged(lastCall.logged, URL_A, "primary", TenTimes[10])

\* the urls of a list that have a scheme, in the order of the list
RECURSIVE WithoutMalformed(_)
WithoutMalformed(urls) ==
    IF Len(urls) = 0 THEN <<>>
    ELSE IF Head(urls) \in ValidUrls(urls)
         THEN <<Head(urls)>> \o WithoutMalformed(Tail(urls))
         ELSE WithoutMalformed(Tail(urls))
Malformed(urls) == {urls[k] : k \in 1..Len(urls)} \ ValidUrls(urls)

\* C27: a configured url that does not start with http:// or https:// gets no
\* job in setup_schedules, and its presence does not change the jobs of the other
\* urls: the job table equals the one built from the list of urls with the
\* malformed ones removed.
C27_MalformedUrlSkipped ==
    [][lastCall'.op = "setup_schedules" =>
          /\ \A j \in 1..Len(jobs') : jobs'[j].url \notin Malformed(CONFIG'.TARGET_URLS)
          /\ jobs' = jobs_of_urls(WithoutMalformed(CONFIG'.TARGET_URLS),
                                  CONFIG'.SCRAPE_TIMES_PRIMARY,
                                  CONFIG'.SCRAPE_TIMES_BACKUP).scheduled]_vars

\* setup ran with a url without a scheme between two urls that have one, and
\* both of these have their jobs
C27_Witness ==
    /\ LastIs("setup_schedules")
    /\ CONFIG.TARGET_URLS = <<URL_A, URL_C, URL_B>>
    /\ \E k \in 1..Len(lastCall.logged) : /\ lastCall.logged[k].message = "Invalid URL format"
                                          /\ lastCall.logged[k].url = URL_C
    /\ \E j \in 1..Len(jobs) : jobs[j].url = URL_A
    /\ \E j \in 1..Len(jobs) : jobs[j].url = URL_B

----------------------------------------------------------------------------
(* Properties of the jobs and of the loop of the scheduler *)

\* a job stored a capture: perform_scrape returned from a save with an identifier
JobCaptured == LastIs("perform_scrape") /\ ~IsNone(lastCall.ret)
\* the job is the one of the slot at the 0-based position pos of its category
TriggeredBy(job, pos) ==
    /\ job.run_index = pos
    /\ pos < Len(TimesOf(CONFIG, job.scrape_type))
    /\ TimesOf(CONFIG, job.scrape_type)[pos + 1] = job.at

\* C25, as the code has it: the run-slot field (characters 2-3) of the identifier
\* of a capture triggered by a scheduled job is, as a 2-digit number, the 0-based
\* position of the triggering time slot in the list of its category plus one.
C25_RunSlotField ==
    JobCaptured =>
       \E pos \in 0..8 :
          /\ TriggeredBy(lastCall.job, pos)
          /\ SubSeq(lastCall.ret.val, 2, 3) = FormatZeroPadded(pos + 1, 2)

\* C25 as stated: the run-slot field is the 0-based position itself
C25_RunSlotIsPosition ==
    JobCaptured =>
       \E pos \in 0..8 :
          /\ TriggeredBy(lastCall.job, pos)
          /\ SubSeq(lastCall.ret.val, 2, 3) = FormatZeroPadded(pos, 2)

\* the job of the second primary slot stored a capture whose run-slot field is 02
C25_Witness ==
    /\ JobCaptured
    /\ lastCall.job.scrape_type = "primary"
    /\ TriggeredBy(lastCall.job, 1)
    /\ lastCall.job.at = T_0900
    /\ SubSeq(lastCall.ret.val, 2, 3) = <<"0", "2">>

ExitReasons == {"flag", "duration", "KeyboardInterrupt", "exception"}
DurationElapsed == ~IsNone(loop.end_time) /\ loop.polls >= loop.end_time.val
\* the loop leaves the while statement (to the except and finally clauses)
LoopExits == Running /\ loop'.pc = "finally"

InTransaction == ~IsNone(loop.pending)

\* C29: a save that is in flight when a stop is requested completes its local
\* transaction (commit or rollback) before the loop checks the stop condition
\* and closes the connection: while a local transaction is open the loop is
\* inside the save, never at a test of the while statement, in the finally
\* clause or returned.
C29_NoExitInTransaction == InTransaction => loop.pc = "in save"

\* the step ends a job of the loop: perform_scrape returns or raises
JobEnds ==
    /\ loop.pc \in {"run_pending", "in save"}
    /\ lastCall'.op = "perform_scrape"
    /\ lastCall' # lastCall \/ loop'.due # loop.due
MirrorFailed(c) == \E i \in 1..Len(c.events) : ~c.events[i].ok
\* what a job recorded is a failure: no page, an exception, no identifier or no
\* local commit, or a failed statement of the remote mirror
JobFailed(c) ==
    \/ ~c.fetched
    \/ c.raised
    \/ IsNone(c.ret)
    \/ MirrorFailed(c)

\* C30: a single failed capture job (fetch failure, identifier generation
\* failure, url-code persistence failure, local persist failure or remote
\* mirror failure) never stops the scheduler: after such a job the loop is still
\* running, at the next due job of the pass.
C30_FailedJobKeepsLoop ==
    [][(JobEnds /\ JobFailed(lastCall')) =>
          /\ loop'.pc = "run_pending"
          /\ loop'.due = Tail(loop.due)]_vars

----------------------------------------------------------------------------
(* Properties of the tables, the identifiers' order and the configuration *)

IsPrefixOf(before, after) ==
    Len(before) <= Len(after) /\ SubSeq(after, 1, Len(before)) = before

\* C31: the local capture and tag tables are append-only under the core
\* operations: no save_scrape_data call, successful or failed, modifies or
\* deletes a capture row or a tag row committed by an earlier call; the tables
\* after the call begin with the tables before it.
C31_AppendOnly ==
    [][lastCall'.op = "save_scrape_data" =>
          /\ IsPrefixOf(scraped_pages, scraped_pages')
          /\ IsPrefixOf(html_tag_data, html_tag_data')]_vars

\* a save of a page stored before was rolled back after its identifier was
\* generated, and the capture row and the tag rows of the earlier call are in
\* the tables
C31_Witness ==
    /\ LastIs("save_scrape_data")
    /\ ~IsNone(lastCall.gen.ret)
    /\ ~lastCall.saved_locally
    /\ Len(scraped_pages) = 1
    /\ scraped_pages[1].url = lastCall.url
    /\ Len(html_tag_data) > 0
    /\ \A i \in 1..Len(html_tag_data) :
          html_tag_data[i].capture_uuid = scraped_pages[1].capture_uuid

\* the order of two characters of an identifier: digits before capital letters
CharOrd(c) == CHOOSE i \in 1..(Len(DigitChars) + Len(UpperChars)) : (DigitChars \o UpperChars)[i] = c
\* a < b for strings, as Python and SQL compare them
RECURSIVE LexLess(_, _)
LexLess(a, b) ==
    IF Len(b) = 0 THEN FALSE
    ELSE IF Len(a) = 0 THEN TRUE
    ELSE IF Head(a) # Head(b) THEN CharOrd(Head(a)) < CharOrd(Head(b))
    ELSE LexLess(Tail(a), Tail(b))

\* two successive successful calls on the counter, same prefix char and url, the
\* sequence number of the later one not past 999
SuccessiveCaptures ==
    /\ CounterCall(lastCall) /\ CounterCall(lastCall')
    /\ seqCalls' # seqCalls
    /\ lastCall'.prefix_char = lastCall.prefix_char
    /\ lastCall'.url = lastCall.url
    /\ lastCall'.seq.val <= SEQUENCE_CAP

\* C32: for captures of the same category char and the same url whose sequence
\* numbers have not passed 999, the lexicographic order of the identifiers is
\* the order in which the captures were made, also for two captures in the same
\* second: the identifier of a call compares greater than the identifier of the
\* call before it.
C32_OrderIsCaptureOrder ==
    [][SuccessiveCaptures => LexLess(lastCall.ret.val, lastCall'.ret.val)]_vars

(* The configuration alone: writes and removals of settings *)

\* save_config_value("URL_CODES", dict) as get_or_assign_url_code calls it (line 266)
CallSaveUrlCodes ==
    \E url_codes \in {[u \in {URL_B} |-> CODE_AB]} :
      \E r \in {save_config_value(World, "URL_CODES", PyDict(url_codes), TRUE)} :
           /\ SetWorld(r.w)
           /\ lastCall' = [op |-> "save_config_value", key |-> "URL_CODES",
                           value |-> PyDict(url_codes), raised |-> r.raised]
           /\ UNCHANGED <<now, seqCalls, seqBase, boundCode, jobs, _stop_scheduler, loop>>

\* save_config_value(key, None)
CallRemoveConfigValue ==
    \E key \in {"TARGET_URLS", "URL_CODES", "SCRAPE_TIMES_PRIMARY"} :
      \E r \in {save_config_value(World, key, None, TRUE)} :
           /\ SetWorld(r.w)
           /\ lastCall' = [op |-> "save_config_value", key |-> key,
                           value |-> None, raised |-> r.raised]
           /\ UNCHANGED <<now, seqCalls, seqBase, boundCode, jobs, _stop_scheduler, loop>>

NextConfig == CallSaveScheduleSetting \/ CallSaveUrlCodes \/ CallRemoveConfigValue
SpecConfig == InitNewOrUsed /\ [][NextConfig]_vars

\* the configuration a process loads from the persisted file
LoadedFromFile == StartProcess(World).config

\* C33: after every save_config_value call that writes or removes a key, the
\* in-memory configuration equals the configuration loaded from the persisted
\* file; removing a key leaves its in-memory value at the default (TARGET_URLS
\* the empty list, URL_CODES the empty mapping).
C33_ConfigEqualsFile ==
    (LastIs("save_config_value") /\ ~lastCall.raised) =>
        /\ CONFIG = LoadedFromFile
        /\ IsNone(lastCall.value) => CONFIG[lastCall.key] = ConfigDefault(lastCall.key)

----------------------------------------------------------------------------
(* main.py: manual_scrape *)

\* a variant that uses T at every manual scrape
current_manual_prefix_fixed(last_manual_prefix) == "T"

\* 'T' if last_manual_prefix == 'M' else 'M' (line 118)
current_manual_prefix(last_manual_prefix) == IF last_manual_prefix = "M" THEN "T" ELSE "M"

\* what manual_scrape did: fetched says whether fetch_html gave a page, prefix is
\* the prefix char of the call (None when line 118 was not reached), wrote
\* whether save_config_value returned, ret what save_scrape_data returned
ManualResult(w, raised, fetched, prefix, wrote, ret, gen) ==
    [w |-> w, raised |-> raised, fetched |-> fetched, prefix |-> prefix,
     wrote |-> wrote, ret |-> ret, gen |-> gen]

\* lines 128-133: r is what save_scrape_data did; an exception leaves the command
\* before close_local_db_connection()
manual_scrape_saved(prefix, r) ==
    ManualResult(IF r.raised THEN r.w ELSE close_local_db_connection(r.w),
                 r.raised, TRUE, Some(prefix), TRUE, r.ret, Some(r.gen))

\* lines 122-128: s is what save_config_value("LAST_MANUAL_PREFIX", prefix) did
manual_scrape_flipped(s, url, html_content, scrape_type, prefix, env) ==
    IF s.raised
    THEN ManualResult(s.w, TRUE, TRUE, Some(prefix), FALSE, None, None)
    ELSE manual_scrape_saved(prefix,
                             save_scrape_data(s.w, url, html_content, scrape_type, prefix,
                                              RUN_99, 1, env))

\* lines 116-122: c is the world after get_config()
manual_scrape_fetched(c, url, html_content, scrape_type, env, writable) ==
    manual_scrape_flipped(
        save_config_value(c, "LAST_MANUAL_PREFIX",
                          PyStr(current_manual_prefix(c.config.LAST_MANUAL_PREFIX)), writable),
        url, html_content, scrape_type,
        current_manual_prefix(c.config.LAST_MANUAL_PREFIX), env)

\* manual_scrape(url, scrape_type), the tables left as they are at the prompt of
\* line 111: response is what the site answers, writable whether the .env file
\* can be rewritten
manual_scrape(w, url, scrape_type, response, env, writable) ==
    IF ~startswith(url, "http://") /\ ~startswith(url, "https://")
    THEN ManualResult(w, FALSE, FALSE, None, FALSE, None, None)
    ELSE IF IsNone(fetch_html(url, response))
    THEN ManualResult(close_local_db_connection(get_config(w)), FALSE, FALSE, None, FALSE,
                      None, None)
    ELSE manual_scrape_fetched(get_config(get_config(w)), url,
                               fetch_html(url, response).val, scrape_type, env, writable)

\* what the environment does to the save of a manual scrape
ManualOutcomes ==
    {Smooth, [Smooth EXCEPT !.connects = FALSE], [Smooth EXCEPT !.localFault = "commit"]}

CallManualScrape ==
    \E url \in {URL_A, URL_C}, response \in FetchResponses, o \in ManualOutcomes,
       writable \in BOOLEAN :
      \E draws \in SaveDraws(url) :
       \E r \in {manual_scrape(World, url, "manual", response, JobEnv(o, draws, TRUE),
                                writable)} :
           /\ SeqIssued < MaxCaptures
           /\ SetWorld(r.w)
           /\ lastCall' = [op |-> "manual_scrape", url |-> url, fetched |-> r.fetched,
                           prefix |-> r.prefix, wrote |-> r.wrote, ret |-> r.ret,
                           raised |-> r.raised, run_number_str |-> RUN_99]
           /\ ObserveSequence(~IsNone(r.gen), IF IsNone(r.gen) THEN None ELSE r.gen.val.code,
                               IF IsNone(r.prefix) THEN "" ELSE r.prefix.val,
                               IF IsNone(r.gen) THEN None ELSE r.gen.val.seq)
           /\ ObserveCode(url, IF IsNone(r.gen) THEN None ELSE r.gen.val.code)
           /\ UNCHANGED <<now, seqBase, jobs, _stop_scheduler, loop>>

\* the command manual-scrape, each in a process of its own or in the same one
NextManual == CallManualScrape \/ Restart
SpecManual == InitNewOrUsed /\ [][NextManual]_vars

\* the last manual prefix the file holds, M when it holds none
PersistedPrefix(file) == getenv(file, "LAST_MANUAL_PREFIX", DEFAULT_LAST_MANUAL_PREFIX)
Alternate(prefix_char) == IF prefix_char = "M" THEN "T" ELSE "M"
StoresUnchanged ==
    UNCHANGED <<envFile, sequential_counters, scraped_pages, html_tag_data,
                sb_scraped_pages, sb_html_tag_data>>

\* C34: successive manual scrapes whose fetch succeeds use prefix chars that
\* strictly alternate T, M, T, M, ... (T first when the persisted last prefix is
\* the default M) with run slot 99: the prefix char of a scrape is the alternate
\* of the persisted one, and differs from the prefix char of the scrape before
\* it.  The persisted last prefix is flipped before the save and stays flipped
\* when the save fails.  A manual scrape whose url lacks a scheme or whose fetch
\* fails flips nothing and writes nothing; nor does one that cannot write the
\* prefix, which calls no save.
C34_ManualPrefixAlternates ==
    [][lastCall'.op = "manual_scrape" =>
          /\ lastCall'.wrote =>
                /\ lastCall'.prefix.val \in {"T", "M"}
                /\ lastCall'.prefix.val = Alternate(PersistedPrefix(envFile))
                /\ PersistedPrefix(envFile') = lastCall'.prefix.val
                /\ lastCall'.run_number_str = <<"9", "9">>
                /\ ~IsNone(lastCall'.ret) =>
                      /\ lastCall'.ret.val[1] = lastCall'.prefix.val
                      /\ SubSeq(lastCall'.ret.val, 2, 3) = <<"9", "9">>
                /\ (lastCall.op = "manual_scrape" /\ lastCall.wrote) =>
                      lastCall'.prefix.val # lastCall.prefix.val
          /\ ~lastCall'.wrote => StoresUnchanged /\ IsNone(lastCall'.ret)]_vars

\* a manual scrape stored a capture under T99, the next one used M, its save
\* failed, and the persisted last prefix is M
C34_Witness ==
    /\ LastIs("manual_scrape")
    /\ lastCall.wrote
    /\ lastCall.prefix = Some("M")
    /\ IsNone(lastCall.ret)
    /\ PersistedPrefix(envFile) = "M"
    /\ Len(scraped_pages) = 1
    /\ SubSeq(scraped_pages[1].capture_uuid, 1, 3) = <<"T", "9", "9">>

----------------------------------------------------------------------------
(* More properties of the scheduler *)

\* C35: a scheduled job whose fetch returns no content performs no save: it
\* leaves the sequence counters, the url-code registry (the URL_CODES of the file
\* and of the configuration), the local store and the remote store unchanged.
C35_NoPageNoSave ==
    [][(lastCall'.op = "perform_scrape" /\ ~lastCall'.fetched) =>
          /\ UNCHANGED <<sequential_counters, scraped_pages, html_tag_data,
                         sb_scraped_pages, sb_html_tag_data>>
          /\ envFile' = envFile
          /\ CONFIG'.URL_CODES = CONFIG.URL_CODES
          /\ IsNone(lastCall'.ret)]_vars

\* a job found no page after an earlier job of the run had stored a capture
C35_Witness ==
    /\ LastIs("perform_scrape")
    /\ ~lastCall.fetched
    /\ Len(scraped_pages) = 1
    /\ Len(sb_scraped_pages) = 1
    /\ SeqIssued = 1

PassStarts == loop.pc = "while" /\ loop'.pc = "run_pending"

\* C36: once the stop flag is set while the loop of run_pending_schedules is
\* running, no new pass over due jobs starts: the flag stays set while the loop
\* runs, no pass starts with the flag set, and both the loop condition and the
\* test after the sleep leave the loop when they find it set, so at most the
\* pass in progress completes before the loop exits.
C36_NoPassAfterStop ==
    [][(Running /\ _stop_scheduler) =>
          /\ ~PassStarts
          /\ Running' => _stop_scheduler'
          /\ loop.pc \in {"while", "check flag"} => loop'.pc = "finally"]_vars

\* the flag was set during the first pass or its sleep; the pass had stored its
\* capture and the loop was left at the next test of the flag
C36_Witness ==
    /\ loop.pc = "finally"
    /\ loop.exit = "flag"
    /\ loop.polls = 1
    /\ JobCaptured

Enters ==
    /\ loop.pc = "not running"
    /\ lastCall'.op = "run_pending_schedules"
    /\ lastCall' # lastCall \/ loop' # loop

\* C40: run_pending_schedules always begins with the stop flag cleared: the flag
\* is not set after the entry whatever it was before, so a request made before
\* the loop starts has no effect on the run; the loop is left by the flag only
\* where it finds the flag set, which only a request made after the entry does.
C40_EntryClearsFlag ==
    [][/\ Enters => ~_stop_scheduler'
       /\ (Running /\ loop'.pc = "finally" /\ loop'.exit = "flag") => _stop_scheduler
       /\ (loop.pc \in {"while", "check flag"} /\ ~_stop_scheduler
              /\ loop'.pc = "finally") => loop'.exit = "KeyboardInterrupt"]_vars

\* a stop was requested before run_pending_schedules was called; the loop is at
\* its condition for the first time with the flag cleared
C40_Witness ==
    /\ LastIs("run_pending_schedules")
    /\ lastCall.requested_before
    /\ lastCall.started
    /\ loop.pc = "while"
    /\ loop.polls = 0
    /\ ~_stop_scheduler

----------------------------------------------------------------------------
(* More properties of the stores *)

\* C37: in every reachable state of the remote store, every mirrored tag row's
\* identifier is the identifier of a capture row that was inserted remotely.
C37_RemoteTagsHaveCapture ==
    \A i \in 1..Len(sb_html_tag_data) :
        \E j \in 1..Len(sb_scraped_pages) :
            sb_scraped_pages[j].capture_uuid = sb_html_tag_data[i].capture_uuid

\* the key of the counter an identifier was numbered from
CounterKeyOf(id) == <<SubSeq(id, 4, 5), id[1]>>
CaptureRowsOf(table, key) == {i \in 1..Len(table) : CounterKeyOf(table[i].capture_uuid) = key}
CounterCoversRows(counters, table) ==
    \A i \in 1..Len(table) :
        Count(counters, CounterKeyOf(table[i].capture_uuid))
            >= Cardinality(CaptureRowsOf(table, CounterKeyOf(table[i].capture_uuid)))

\* C38: in every state a step leads to, for every (url code, prefix char), the
\* persisted counter value is at least the number of local capture rows whose
\* identifier carries that code and prefix char; the number a save obtained is
\* one more than the counter before the call and is the counter after it,
\* whether the save then stores its row or fails.
C38_CounterCoversRows ==
    [][/\ CounterCoversRows(sequential_counters', scraped_pages')
       /\ (SaveStep /\ ~IsNone(lastCall'.gen.seq)) =>
             /\ lastCall'.gen.seq.val
                    = Count(sequential_counters,
                            <<lastCall'.gen.code.val, lastCall'.prefix_char>>) + 1
             /\ Count(sequential_counters',
                      <<lastCall'.gen.code.val, lastCall'.prefix_char>>)
                    = lastCall'.gen.seq.val]_vars

\* a save of a new installation failed after its identifier was generated, the
\* next one stored its row under the number 2: the counter is 2, the rows are 1
C38_Witness ==
    /\ LastIs("save_scrape_data") /\ Succeeded
    /\ lastCall.gen.seq = Some(2)
    /\ Len(scraped_pages) = 1
    /\ SeqField(scraped_pages[1].capture_uuid) = <<"0", "0", "2">>
    /\ Count(sequential_counters, CounterKeyOf(scraped_pages[1].capture_uuid)) = 2

----------------------------------------------------------------------------
(* More properties of the job table *)

\* C39: setup_schedules replaces the job table instead of adding to it: a call
\* that follows a call with the same configuration leaves the table as it is,
\* and after a call every job of the table is a job of the configuration of
\* that moment (its url is a configured url, its time the configured slot at
\* its run index) and no url, category and run index has two jobs, whatever
\* the table held before.
C39_SetupReplaces ==
    [][lastCall'.op = "setup_schedules" =>
          /\ (lastCall.op = "setup_schedules" /\ CONFIG' = CONFIG) => jobs' = jobs
          /\ \A j \in 1..Len(jobs') :
                /\ jobs'[j].url \in ValidUrls(CONFIG'.TARGET_URLS)
                /\ jobs'[j].run_index < Len(TimesOf(CONFIG', jobs'[j].scrape_type))
                /\ jobs'[j].at = TimesOf(CONFIG', jobs'[j].scrape_type)[jobs'[j].run_index + 1]
                /\ Cardinality(JobsFor(jobs', jobs'[j].url, jobs'[j].scrape_type,
                                       jobs'[j].run_index)) = 1
          /\ CONFIG'.TARGET_URLS = <<>> => jobs' = <<>>]_vars

\* a table of ten jobs, nine of them at the times 10:00 to 10:08, was replaced
\* after the primary times were changed: no job at one of those times is left
C39_Witness ==
    /\ LastIs("setup_schedules")
    /\ lastCall.cleared = 10
    /\ Len(jobs) > 0
    /\ \A j \in 1..Len(jobs), i \in 1..10 :
          jobs[j].scrape_type = "primary" => jobs[j].at # TenTimes[i]

====
